--------------------------- MODULE LedgerRefinement ---------------------------
(***************************************************************************)
(* The ledger of processes, locks and lines implements the abstract log of *)
(* LedgerLog, for any number of invocations, as long as none of them dies  *)
(* and no write fails; and verify_chain then succeeds at every moment.     *)
(* Whatever dies or fails, it implements the log of SharedLog.             *)
(***************************************************************************)
EXTENDS LedgerProofs

(* The id of an entry is the history up to that entry.                     *)
History(f) ==
    \A i \in DOMAIN f : f[i].entry_id = [j \in 1 .. i |-> f[j].body]

(* What failures could spoil: every line parses, and a line without its    *)
(* newline is being written right now.                                     *)
ReliableInv ==
    /\ IInv
    /\ Readable(file)
    /\ \A p \in Proc : pc[p] \in {"idle", "read", "write", "newline", "ok"}
    /\ unterminated => \E p \in Proc : pc[p] = "newline"
    /\ History(file)

-----------------------------------------------------------------------------
(* A history and the next body make the next history.                      *)
LEMMA TipIsHistory ==
    ASSUME NEW f \in Seq(Line), Readable(f), History(f)
    PROVE  /\ Bodies(f) \in Seq(Body)
           /\ Len(Bodies(f)) = Len(f)
           /\ TipId(f) = Bodies(f)
<1>1. Len(f) \in Nat /\ DOMAIN f = 1 .. Len(f)
  BY LenProperties
<1>2. \A i \in 1 .. Len(f) : f[i].body \in Body
  BY <1>1, ElementOfSeq DEF Readable, Line, LedgerEntry
<1>3. Bodies(f) = [i \in 1 .. Len(f) |-> f[i].body]
  BY <1>1 DEF Bodies
<1>4. Bodies(f) \in Seq(Body)
  BY <1>1, <1>2, <1>3, SeqDef
<1>5. Len(Bodies(f)) = Len(f)
  BY <1>1, <1>3, <1>4, LenProperties
<1>6. CASE f = <<>>
  BY <1>4, <1>5, <1>6, EmptySeq DEF TipId, GENESIS_PARENT
<1>7. CASE f # <<>>
  <2>1. Len(f) \in DOMAIN f
    BY <1>1, <1>7, EmptySeq
  <2>2. f[Len(f)].entry_id = [j \in 1 .. Len(f) |-> f[j].body]
    BY <2>1 DEF History
  <2>3. QED
    BY <1>3, <1>4, <1>5, <1>7, <2>2 DEF TipId
<1>8. QED
  BY <1>4, <1>5, <1>6, <1>7

LEMMA BodiesGrow ==
    ASSUME NEW f \in Seq(Line), Readable(f), History(f), NEW b \in Body
    PROVE  LET g == Append(f, NewEntry(TipId(f), b))
           IN  /\ Readable(g)
               /\ History(g)
               /\ Bodies(g) = Append(Bodies(f), b)
<1> DEFINE e == NewEntry(TipId(f), b)
           g == Append(f, e)
<1>1. e \in Line /\ e # Torn
  BY TipTyped, EntryTyped DEF Line
<1>2. /\ Len(f) \in Nat /\ Len(g) = Len(f) + 1
      /\ DOMAIN f = 1 .. Len(f) /\ DOMAIN g = 1 .. Len(f) + 1
      /\ \A i \in 1 .. Len(f) : g[i] = f[i]
      /\ g[Len(f) + 1] = e
  BY <1>1, AppendedLine
<1>3. e.body = b /\ e.entry_id = Append(Bodies(f), b)
  BY TipIsHistory DEF NewEntry, entry_id
<1>4. /\ Append(Bodies(f), b) \in [1 .. Len(f) + 1 -> Body]
      /\ DOMAIN Append(Bodies(f), b) = 1 .. Len(f) + 1
      /\ \A i \in 1 .. Len(f) : Append(Bodies(f), b)[i] = f[i].body
      /\ Append(Bodies(f), b)[Len(f) + 1] = b
  <2>1. Bodies(f) \in Seq(Body) /\ Len(Bodies(f)) = Len(f)
    BY TipIsHistory
  <2>2. \A i \in 1 .. Len(f) : Bodies(f)[i] = f[i].body
    BY <1>2 DEF Bodies
  <2>3. Append(Bodies(f), b) \in Seq(Body)
    BY <2>1, AppendProperties
  <2>4. Append(Bodies(f), b) \in [1 .. Len(f) + 1 -> Body]
    BY <2>1, <2>3, AppendProperties, LenProperties
  <2>5. QED
    BY <1>2, <2>1, <2>2, <2>4, AppendProperties, LenProperties
<1> HIDE DEF e, g
<1>5. Bodies(g) = [i \in 1 .. Len(f) + 1 |-> g[i].body]
  BY <1>2 DEF Bodies
<1>6. Append(Bodies(f), b) = [i \in 1 .. Len(f) + 1 |-> g[i].body]
  <2>1. Append(Bodies(f), b) =
          [i \in 1 .. Len(f) + 1 |-> Append(Bodies(f), b)[i]]
    BY <1>4
  <2>2. ASSUME NEW i \in 1 .. Len(f) + 1
        PROVE  Append(Bodies(f), b)[i] = g[i].body
    BY <1>2, <1>3, <1>4
  <2>3. QED
    BY <2>1, <2>2
<1>7. Readable(g)
  BY <1>1, <1>2 DEF Readable
<1>8. ASSUME NEW i \in DOMAIN g
      PROVE  g[i].entry_id = [j \in 1 .. i |-> g[j].body]
  <2>1. CASE i = Len(f) + 1
    BY <1>2, <1>3, <1>6, <2>1
  <2>2. CASE i \in 1 .. Len(f)
    <3>1. f[i].entry_id = [j \in 1 .. i |-> f[j].body]
      BY <1>2, <2>2 DEF History
    <3>2. \A j \in 1 .. i : g[j] = f[j]
      BY <1>2, <2>2
    <3>3. QED
      BY <1>2, <2>2, <3>1, <3>2
  <2>3. QED
    BY <1>2, <2>1, <2>2
<1>9. QED
  BY <1>5, <1>6, <1>7, <1>8 DEF History, g, e

-----------------------------------------------------------------------------
(* A writer finds the file whole, so its line becomes the next entry.      *)
LEMMA WritesNext ==
    ASSUME ReliableInv, NEW p \in Proc, WriteLine(p)
    PROVE  /\ \A q \in Proc : pc[q] # "newline"
           /\ file' = Append(file, NewEntry(TipId(file), Head(plan[p])))
           /\ MyEntry(p)' = NewEntry(TipId(file), Head(plan[p]))
           /\ Head(plan[p]) \in Body
           /\ pc' = [pc EXCEPT ![p] = "newline"]
           /\ ~SameAsTip(file, Head(plan[p]))
<1>1. pc[p] = "write" /\ plan' = plan /\ parent' = parent
  BY DEF WriteLine
<1>2. \A q \in Proc : pc[q] \in Critical => q = p
  BY <1>1, Alone DEF ReliableInv, IInv, Critical
<1>3. \A q \in Proc : pc[q] # "newline"
  BY <1>1, <1>2 DEF Critical
<1>4. ~unterminated
  BY <1>3 DEF ReliableInv
<1>5. parent[p] = TipId(file) /\ ~SameAsTip(file, Head(plan[p]))
  BY <1>1 DEF ReliableInv, IInv, OwnerInv, ReadyInv
<1>6. plan[p] # <<>>
  BY <1>1 DEF ReliableInv, IInv, ControlInv, LockInv, Critical
<1>7. QED
  BY <1>1, <1>3, <1>4, <1>5, <1>6, PlanTyped
     DEF WriteLine, MyEntry, ReliableInv, IInv, ControlInv

LEMMA ReliableInit == Init => ReliableInv
<1> SUFFICES ASSUME Init PROVE ReliableInv
  OBVIOUS
<1>1. IInv
  BY InvInit
<1>2. Readable(file) /\ History(file)
  BY EmptySeq DEF Init, Readable, History
<1>3. QED
  BY <1>1, <1>2 DEF Init, ReliableInv

LEMMA ReliableStep == ReliableInv /\ [ReliableNext]_vars => ReliableInv'
<1> SUFFICES ASSUME ReliableInv, [ReliableNext]_vars PROVE ReliableInv'
  OBVIOUS
<1> DEFINE Good ==
      /\ Readable(file)
      /\ \A p \in Proc : pc[p] \in {"idle", "read", "write", "newline", "ok"}
      /\ unterminated => \E p \in Proc : pc[p] = "newline"
      /\ History(file)
<1>0. Good /\ TypeOK
  BY DEF ReliableInv, IInv, ControlInv
<1>1. IInv'
  <2>1. [Next]_vars
    BY DEF ReliableNext, Next
  <2>2. QED
    BY <2>1, InvStep DEF ReliableInv
<1>a. file' = file => Readable(file)' /\ History(file)'
  BY <1>0 DEF Readable, History
<1>2. ASSUME NEW p \in Proc, Acquire(p) \/ ReadTip(p) \/ SkipTip(p) \/ Finish(p)
      PROVE  Good'
  <2>1. /\ file' = file /\ unterminated' = unterminated
        /\ pc[p] # "newline"
        /\ \E c \in {"idle", "read", "write", "ok"} : pc' = [pc EXCEPT ![p] = c]
    BY <1>2 DEF Acquire, ReadTip, SkipTip, Finish
  <2>2. \A q \in Proc : pc[q] = "newline" => pc'[q] = "newline"
    BY <1>0, <2>1 DEF TypeOK
  <2>3. \A q \in Proc : pc'[q] \in {"idle", "read", "write", "newline", "ok"}
    BY <1>0, <2>1 DEF TypeOK
  <2>4. QED
    BY <1>0, <1>a, <2>1, <2>2, <2>3
<1>3. ASSUME NEW p \in Proc, ReadFails(p) PROVE Good'
  BY <1>0, <1>3 DEF ReadFails
<1>4. ASSUME NEW p \in Proc, WriteLine(p) PROVE Good'
  <2>1. Readable(file') /\ History(file')
    BY <1>0, <1>4, WritesNext, BodiesGrow DEF TypeOK
  <2>2. QED
    BY <1>0, <1>4, <2>1, WritesNext DEF TypeOK, Readable, History
<1>5. ASSUME NEW p \in Proc, WriteNewline(p) PROVE Good'
  <2>1. \A q \in Proc : pc'[q] \in {"idle", "read", "write", "newline", "ok"}
    BY <1>0, <1>5 DEF WriteNewline, TypeOK
  <2>2. file' = file /\ unterminated' = FALSE
    BY <1>5 DEF WriteNewline
  <2>3. QED
    BY <1>0, <1>a, <2>1, <2>2
<1>6. ASSUME UNCHANGED vars PROVE Good'
  <2>1. file' = file /\ pc' = pc /\ unterminated' = unterminated
    BY <1>6 DEF vars
  <2>2. QED
    BY <1>0, <1>a, <2>1
<1>7. Good'
  BY <1>2, <1>3, <1>4, <1>5, <1>6 DEF ReliableNext, Step, Terminated
<1>8. QED
  BY <1>1, <1>7 DEF ReliableInv

LEMMA ReliableHolds == ReliableSpec => []ReliableInv
  BY ReliableInit, ReliableStep, PTL DEF ReliableSpec

-----------------------------------------------------------------------------
(* Without failures verify_chain succeeds in every state, between the two  *)
(* writes of an append too, and an invocation that ended was successful.   *)
THEOREM VerifiesAlways == ReliableSpec => []VerifiesThroughout
<1>1. ReliableInv => VerifiesThroughout
  BY DEF ReliableInv, IInv, ChainToTheTail, Chained, Readable, verify_chain,
         VerifiesThroughout, Ended
<1>2. QED
  BY <1>1, ReliableHolds, PTL

(* What the mapped variables are in a state of the ledger.                 *)
LEMMA Mapped ==
    ASSUME ReliableInv, NEW p \in Proc
    PROVE  /\ pc[p] = "newline" => PendingId(p) = Bodies(file)
           /\ pc[p] # "newline" => PendingId(p) = <<>>
           /\ pc[p] = "newline" => PendingId(p) # <<>>
           /\ pc[p] \in Critical => \A q \in Proc : q # p => PendingId(q) = <<>>
<1>1. file \in Seq(Line) /\ Readable(file) /\ History(file)
  BY DEF ReliableInv, IInv, ControlInv, TypeOK
<1>2. ASSUME pc[p] = "newline"
      PROVE  PendingId(p) = Bodies(file) /\ PendingId(p) # <<>>
  <2>1. file # <<>>
    BY <1>2 DEF ReliableInv, IInv, ControlInv, UnterminatedInv
  <2>2. Len(file) \in DOMAIN file /\ Len(file) # 0
    BY <1>1, <2>1, LenProperties, EmptySeq
  <2>3. file[Len(file)].entry_id = MyEntry(p).entry_id
    BY <1>1, <1>2, <2>2 DEF ReliableInv, IInv, OwnerInv, WrittenInv, Readable
  <2>4. PendingId(p) = Bodies(file)
    BY <1>1, <1>2, <2>1, <2>3, TipIsHistory DEF PendingId, TipId
  <2>5. Bodies(file) # <<>>
    BY <1>1, <2>2, TipIsHistory, EmptySeq
  <2>6. QED
    BY <2>4, <2>5
<1>3. ASSUME pc[p] \in Critical, NEW q \in Proc, q # p PROVE PendingId(q) = <<>>
  BY <1>3, Alone DEF PendingId, Critical, ReliableInv, IInv
<1>4. pc[p] # "newline" => PendingId(p) = <<>>
  BY DEF PendingId
<1>5. QED
  BY <1>2, <1>3, <1>4

-----------------------------------------------------------------------------
LEMMA LogInitial == Init => Log!LogInit
<1> SUFFICES ASSUME Init PROVE Log!LogInit
  OBVIOUS
<1>1. Bodies(file) = <<>>
  BY TipIsHistory, EmptySeq DEF Init, Bodies
<1>2. \A p \in Proc : PendingId(p) = <<>>
  BY DEF Init, PendingId
<1>3. QED
  BY <1>1, <1>2 DEF Init, Log!LogInit, Log!None

(* Each step of the ledger is a step of the log or changes nothing in it.  *)
LEMMA LogStep ==
    ASSUME ReliableInv, ReliableInv', [ReliableNext]_vars
    PROVE  [Log!LogNext]_(Log!logVars)
<1>0. TypeOK /\ Readable(file) /\ History(file)
  BY DEF ReliableInv, IInv, ControlInv
<1>1. ASSUME NEW p \in Proc, Acquire(p) \/ ReadTip(p) \/ Finish(p)
      PROVE  UNCHANGED Log!logVars
  <2>1. file' = file /\ acked' = acked
    BY <1>1 DEF Acquire, ReadTip, Finish
  <2>2. ASSUME NEW q \in Proc PROVE PendingId(q)' = PendingId(q)
    BY <1>0, <1>1 DEF Acquire, ReadTip, Finish, PendingId, MyEntry, TypeOK
  <2>3. QED
    BY <2>1, <2>2 DEF Log!logVars, Bodies
<1>2. ASSUME NEW p \in Proc, SkipTip(p) PROVE Log!AcknowledgeTip(p)
  <2>1. \A q \in Proc : PendingId(q) = <<>> /\ PendingId(q)' = <<>>
    BY <1>0, <1>2, Mapped DEF SkipTip, PendingId, Critical, TypeOK
  <2>2. Bodies(file) # <<>> /\ TipId(file) = Bodies(file)
    BY <1>0, <1>2, TipIsHistory, EmptySeq DEF SkipTip, SameAsTip, TypeOK
  <2>3. /\ file' = file
        /\ acked' = [acked EXCEPT ![p] = Append(@, TipId(file))]
    BY <1>2 DEF SkipTip
  <2>4. QED
    BY <2>1, <2>2, <2>3 DEF Log!AcknowledgeTip, Log!None, Bodies
<1>3. ASSUME NEW p \in Proc, WriteLine(p) PROVE Log!Record(p, Head(plan[p]))
  <2> DEFINE b == Head(plan[p])
  <2>1. \A q \in Proc : PendingId(q) = <<>>
    BY <1>3, WritesNext DEF PendingId
  <2>2. Bodies(file') = Append(Bodies(file), b)
    BY <1>0, <1>3, WritesNext, BodiesGrow DEF TypeOK
  <2>3. PendingId(p)' = Append(Bodies(file), b)
    <3>1. pc'[p] = "newline"
      BY <1>0, <1>3, WritesNext DEF TypeOK
    <3>2. PendingId(p)' = NewEntry(TipId(file), b).entry_id
      BY <1>3, <3>1, WritesNext DEF PendingId
    <3>3. TipId(file) = Bodies(file)
      BY <1>0, TipIsHistory DEF TypeOK
    <3>4. QED
      BY <3>2, <3>3 DEF NewEntry, entry_id
  <2>4. \A q \in Proc : q # p => PendingId(q)' = <<>>
    BY <1>0, <1>3, WritesNext DEF TypeOK, PendingId
  <2>5. Bodies(file) # <<>> => Bodies(file)[Len(Bodies(file))] # b
    <3>1. Len(file) \in Nat /\ DOMAIN file = 1 .. Len(file)
      BY <1>0, LenProperties DEF TypeOK
    <3>2. Len(Bodies(file)) = Len(file)
      BY <1>0, TipIsHistory DEF TypeOK
    <3>3. ASSUME Bodies(file) # <<>> PROVE file # <<>> /\ Len(file) \in DOMAIN file
      BY <1>0, <3>1, <3>2, <3>3, TipIsHistory, EmptySeq DEF TypeOK
    <3>4. QED
      BY <1>3, <3>2, <3>3, WritesNext DEF Bodies, SameAsTip
  <2>6. acked' = acked
    BY <1>3 DEF WriteLine
  <2>7. QED
    BY <2>1, <2>2, <2>3, <2>4, <2>5, <2>6 DEF Log!Record, Log!None, Bodies
<1>4. ASSUME NEW p \in Proc, WriteNewline(p) PROVE Log!Acknowledge(p)
  <2>1. /\ pc[p] = "newline" /\ pc' = [pc EXCEPT ![p] = "idle"]
        /\ file' = file
        /\ acked' = [acked EXCEPT ![p] = Append(@, MyEntry(p).entry_id)]
    BY <1>4 DEF WriteNewline
  <2>2. PendingId(p) = Bodies(file) /\ PendingId(p) # <<>>
    BY <2>1, Mapped
  <2>3. PendingId(p) = MyEntry(p).entry_id
    BY <2>1 DEF PendingId
  <2>4. PendingId(p)' = <<>>
    BY <1>0, <2>1 DEF PendingId, TypeOK
  <2>5. ASSUME NEW q \in Proc, q # p
        PROVE  PendingId(q) = <<>> /\ PendingId(q)' = <<>>
    <3>1. pc[q] # "newline"
      BY <2>1, <2>5, Alone DEF Critical, ReliableInv, IInv
    <3>2. QED
      BY <1>0, <2>1, <2>5, <3>1 DEF PendingId, TypeOK
  <2>6. QED
    BY <2>1, <2>2, <2>3, <2>4, <2>5 DEF Log!Acknowledge, Log!None, Bodies
<1>5. ASSUME NEW p \in Proc, ReadFails(p) PROVE FALSE
  BY <1>0, <1>5 DEF ReadFails
<1>6. CASE UNCHANGED vars
  BY <1>6 DEF vars, Log!logVars, Bodies, PendingId, MyEntry
<1>7. ASSUME NEW p \in Proc, Step(p) PROVE [Log!LogNext]_(Log!logVars)
  <2>1. CASE WriteLine(p)
    BY <1>3, <2>1, WritesNext DEF Log!LogNext
  <2>2. QED
    BY <1>1, <1>2, <1>4, <1>5, <1>7, <2>1 DEF Step, Log!LogNext
<1>8. QED
  BY <1>6, <1>7 DEF ReliableNext, Terminated

(* The ledger as it is - locks, two writes per entry, concurrent processes *)
(* - is an append-only log with atomic appends, while nothing fails.       *)
THEOREM RefinesLog == ReliableSpec => ImplementsLog
<1>1. ReliableInv /\ ReliableInv' /\ [ReliableNext]_vars => [Log!LogNext]_(Log!logVars)
  BY LogStep
<1>2. QED
  BY <1>1, LogInitial, ReliableHolds, PTL DEF ReliableSpec, ImplementsLog, Log!LogSpec

-----------------------------------------------------------------------------
(* What the invocation that is writing had read, and what it has made of   *)
(* it so far.                                                              *)
Began(p, f) ==
    /\ Readable(f) /\ History(f)
    /\ parent[p] = TipId(f)
    /\ ~SameAsTip(f, Head(plan[p]))
    /\ \/ pc[p] = "write" /\ file = f
       \/ pc[p] = "short" /\ file = Append(f, Torn)
       \/ pc[p] = "newline" /\ file = Append(f, MyEntry(p))
       \/ pc[p] = "newline" /\ f # <<>> /\ file = [f EXCEPT ![Len(f)] = Torn]

BeganInv ==
    \A p \in Proc : pc[p] \in {"write", "short", "newline"} =>
        \E f \in Seq(Line) : Began(p, f)

(* IInv says what is in the file; the mapping needs the file as it was     *)
(* before the append that goes on.                                         *)
SharedInv ==
    /\ IInv
    /\ BeganInv
    /\ Readable(file) => History(file)

(* What an invocation read, and the lines that may become of it.           *)
LEMMA BeganFile ==
    ASSUME IInv, NEW p \in Proc, NEW f \in Seq(Line), Began(p, f)
    PROVE  LET b == Head(plan[p])
           IN  /\ lock = p
               /\ b \in Body /\ MyEntry(p) = NewEntry(TipId(f), b)
               /\ parent[p] = Bodies(f) /\ Bodies(f) \in Seq(Body)
               /\ Bodies(f) # <<>> => Bodies(f)[Len(Bodies(f))] # b
               /\ Readable(Append(f, MyEntry(p))) /\ History(Append(f, MyEntry(p)))
               /\ Bodies(Append(f, MyEntry(p))) = Append(Bodies(f), b)
               /\ ~Readable(Append(f, Torn))
               /\ f # <<>> => ~Readable([f EXCEPT ![Len(f)] = Torn])
<1>1. pc[p] \in Critical
  BY DEF Began, Critical
<1>2. lock = p /\ plan[p] # <<>> /\ TypeOK
  BY <1>1 DEF IInv, ControlInv, LockInv
<1>3. Head(plan[p]) \in Body
  BY <1>2, PlanTyped
<1>4. MyEntry(p) = NewEntry(TipId(f), Head(plan[p]))
  BY DEF Began, MyEntry
<1>5. /\ parent[p] = Bodies(f) /\ Bodies(f) \in Seq(Body)
      /\ Len(Bodies(f)) = Len(f)
  BY TipIsHistory DEF Began
<1>6. /\ Readable(Append(f, MyEntry(p))) /\ History(Append(f, MyEntry(p)))
      /\ Bodies(Append(f, MyEntry(p))) = Append(Bodies(f), Head(plan[p]))
  BY <1>3, <1>4, BodiesGrow DEF Began
<1>7. ~Readable(Append(f, Torn))
  BY AppendedLine DEF Readable, Line
<1>8. f # <<>> => ~Readable([f EXCEPT ![Len(f)] = Torn])
  BY ReplacedLine DEF Readable, Line
<1>9. ASSUME Bodies(f) # <<>> PROVE Bodies(f)[Len(Bodies(f))] # Head(plan[p])
  <2>1. f # <<>> /\ Len(f) \in DOMAIN f
    BY <1>5, <1>9, EmptySeq, LenProperties
  <2>2. QED
    BY <1>5, <2>1 DEF Began, SameAsTip, Bodies
<1>10. QED
  BY <1>2, <1>3, <1>4, <1>5, <1>6, <1>7, <1>8, <1>9

(* A step that leaves the file alone, and leaves alone whoever is writing. *)
LEMMA BeganKept ==
    ASSUME SharedInv, file' = file,
           \A q \in Proc : pc'[q] \in {"write", "short", "newline"} =>
               pc'[q] = pc[q] /\ parent'[q] = parent[q] /\ plan'[q] = plan[q]
    PROVE  BeganInv' /\ (Readable(file) => History(file))'
<1>1. ASSUME NEW q \in Proc, pc'[q] \in {"write", "short", "newline"}
      PROVE  (\E f \in Seq(Line) : Began(q, f))'
  <2>1. pc'[q] = pc[q] /\ parent'[q] = parent[q] /\ plan'[q] = plan[q]
    BY <1>1
  <2>2. PICK f \in Seq(Line) : Began(q, f)
    BY <1>1, <2>1 DEF SharedInv, BeganInv
  <2>3. Began(q, f)'
    BY <2>1, <2>2 DEF Began, Readable, History, MyEntry
  <2>4. QED
    BY <2>3
<1>2. QED
  BY <1>1 DEF BeganInv, SharedInv, Readable, History

LEMMA SharedInvInit == Init => SharedInv
<1> SUFFICES ASSUME Init PROVE SharedInv
  OBVIOUS
<1>1. BeganInv /\ History(file)
  BY EmptySeq DEF Init, BeganInv, History
<1>2. QED
  BY <1>1, InvInit DEF SharedInv

LEMMA SharedInvStep == SharedInv /\ [Next]_vars => SharedInv'
<1> SUFFICES ASSUME SharedInv, [Next]_vars PROVE SharedInv'
  OBVIOUS
<1> DEFINE Goal == BeganInv' /\ (Readable(file) => History(file))'
<1>0. IInv /\ TypeOK
  BY DEF SharedInv, IInv, ControlInv
<1>a. ASSUME NEW p \in Proc, pc[p] \in Critical, NEW f \in Seq(Line),
             Began(p, f)', \A q \in Proc : q # p => pc'[q] = pc[q],
             Readable(file') => History(file')
      PROVE  Goal
  <2>1. \A q \in Proc : q # p => pc[q] \notin {"write", "short", "newline"}
    BY <1>0, <1>a, Alone DEF IInv, Critical
  <2>2. ASSUME NEW q \in Proc, pc'[q] \in {"write", "short", "newline"}
        PROVE  (\E g \in Seq(Line) : Began(q, g))'
    <3>1. q = p
      BY <1>a, <2>1, <2>2
    <3>2. QED
      BY <1>a, <3>1
  <2>3. QED
    BY <1>a, <2>2 DEF BeganInv
<1>1. ASSUME NEW p \in Proc, Acquire(p) \/ ReadFails(p) \/ SkipTip(p) \/ Finish(p)
                             \/ IoFails(p) \/ Crash(p)
      PROVE  Goal
  <2>1. /\ file' = file /\ parent' = parent
        /\ \A q \in Proc : pc'[q] \in {"write", "short", "newline"} =>
             pc'[q] = pc[q] /\ plan'[q] = plan[q]
    BY <1>0, <1>1 DEF TypeOK, Acquire, ReadFails, SkipTip, Finish, IoFails, Crash,
                      Ended
  <2>2. QED
    BY <2>1, BeganKept
<1>2. ASSUME NEW p \in Proc, WriteNewline(p) PROVE Goal
  <2>1. \A q \in Proc : q # p => pc[q] \notin Critical
    BY <1>0, <1>2, Alone DEF WriteNewline, IInv, Critical
  <2>2. /\ file' = file /\ parent' = parent
        /\ \A q \in Proc : pc'[q] \notin {"write", "short", "newline"}
    BY <1>0, <1>2, <2>1 DEF WriteNewline, TypeOK, Critical
  <2>3. QED
    BY <2>2, BeganKept
<1>3. ASSUME NEW p \in Proc, ReadTip(p) PROVE Goal
  <2>1. /\ pc[p] = "read" /\ pc'[p] = "write" /\ parent'[p] = TipId(file)
        /\ file' = file /\ plan' = plan /\ Readable(file)
        /\ \A q \in Proc : q # p => pc'[q] = pc[q]
        /\ ~SameAsTip(file, Head(plan[p]))
    BY <1>0, <1>3 DEF ReadTip, ParentOfNext, TypeOK
  <2>2. Began(p, file)'
    BY <2>1 DEF Began, SharedInv, Readable, History, TipId, SameAsTip
  <2>3. file' \in Seq(Line)
    BY <1>0, <2>1 DEF TypeOK
  <2>4. (\E f \in Seq(Line) : Began(p, f))'
    BY <2>2, <2>3
  <2>5. \A q \in Proc : q # p => pc[q] \notin {"write", "short", "newline"}
    BY <1>0, <2>1, Alone DEF IInv, Critical
  <2>6. QED
    BY <2>1, <2>4, <2>5 DEF BeganInv, SharedInv, Readable, History
<1>4. ASSUME NEW p \in Proc, pc[p] = "write",
             NEW to \in {"short", "newline"}, pc' = [pc EXCEPT ![p] = to],
             plan' = plan, parent' = parent,
             NEW f \in Seq(Line), Began(p, f),
             \/ to = "short" /\ file' = Append(f, Torn)
             \/ to = "newline" /\ file' = Append(f, MyEntry(p))
             \/ to = "newline" /\ f # <<>> /\ file' = [f EXCEPT ![Len(f)] = Torn]
      PROVE  Goal
  <2>1. Began(p, f)'
    BY <1>0, <1>4 DEF Began, TypeOK, MyEntry
  <2>2. Readable(file') => History(file')
    BY <1>0, <1>4, BeganFile
  <2>3. QED
    BY <1>a, <1>4, <2>1, <2>2 DEF Critical
<1>5. ASSUME NEW p \in Proc, pc[p] = "write"
      PROVE  file \in Seq(Line) /\ Began(p, file)
  BY <1>0, <1>5 DEF SharedInv, BeganInv, Began, TypeOK
<1>6. ASSUME NEW p \in Proc, ShortWrite(p) PROVE Goal
  <2>1. Began(p, file)
    BY <1>5, <1>6 DEF ShortWrite
  <2>2. QED
    BY <1>0, <1>4, <1>6, <2>1 DEF ShortWrite, TypeOK
<1>7. ASSUME NEW p \in Proc, WriteLine(p) PROVE Goal
  <2>1. Began(p, file)
    BY <1>5, <1>7 DEF WriteLine
  <2>2. unterminated => file # <<>>
    BY <1>0 DEF IInv, ControlInv, UnterminatedInv
  <2>3. QED
    BY <1>0, <1>4, <1>7, <2>1, <2>2 DEF WriteLine, TypeOK
<1>8. ASSUME NEW p \in Proc, WriteRest(p) PROVE Goal
  <2>1. PICK f \in Seq(Line) : Began(p, f)
    BY <1>8 DEF WriteRest, SharedInv, BeganInv
  <2>2. file = Append(f, Torn)
    BY <1>8, <2>1 DEF WriteRest, Began
  <2>3. MyEntry(p) \in Line
    BY <1>0, <2>1, PlanTyped DEF IInv, ControlInv, LockInv, Critical, Began, Line
  <2>4. file' = Append(f, MyEntry(p))
    <3>1. /\ Len(f) \in Nat /\ DOMAIN file = 1 .. Len(f) + 1
          /\ Len(file) = Len(f) + 1 /\ \A i \in 1 .. Len(f) : file[i] = f[i]
      BY <2>2, AppendedLine DEF Line
    <3>2. /\ DOMAIN Append(f, MyEntry(p)) = 1 .. Len(f) + 1
          /\ \A i \in 1 .. Len(f) : Append(f, MyEntry(p))[i] = f[i]
          /\ Append(f, MyEntry(p))[Len(f) + 1] = MyEntry(p)
      BY <2>3, AppendedLine
    <3>3. Append(f, MyEntry(p)) = [i \in 1 .. Len(f) + 1 |-> Append(f, MyEntry(p))[i]]
      BY <2>3, <3>2, AppendedLine, LenProperties
    <3>4. file' = [file EXCEPT ![Len(f) + 1] = MyEntry(p)]
      BY <1>8, <3>1 DEF WriteRest
    <3>5. file' = [i \in 1 .. Len(f) + 1 |-> IF i = Len(f) + 1 THEN MyEntry(p)
                                            ELSE file[i]]
      BY <3>1, <3>4
    <3>6. QED
      BY <3>1, <3>2, <3>3, <3>5
  <2>5. Began(p, f)'
    BY <1>0, <1>8, <2>1, <2>4 DEF WriteRest, Began, TypeOK, MyEntry
  <2>6. Readable(file') => History(file')
    BY <1>0, <2>1, <2>4, BeganFile
  <2>7. QED
    BY <1>0, <1>8, <1>a, <2>5, <2>6 DEF WriteRest, TypeOK, Critical
<1>9. ASSUME UNCHANGED vars PROVE Goal
  BY <1>9, BeganKept DEF vars
<1>10. Goal
  BY <1>1, <1>2, <1>3, <1>6, <1>7, <1>8, <1>9 DEF Next, Step, Fault, Terminated
<1>11. QED
  BY <1>0, <1>10, InvStep DEF SharedInv

LEMMA SharedInvHolds == Spec => []SharedInv
  BY SharedInvInit, SharedInvStep, PTL DEF Spec

-----------------------------------------------------------------------------
(* What the mapped variables are while an append waits for its answer ...  *)
LEMMA MappedUnanswered ==
    ASSUME IInv, NEW p \in Proc, pc[p] \in {"short", "newline"},
           NEW f \in Seq(Line), Began(p, f)
    PROVE  LET b == Head(plan[p])
           IN  /\ lock = p /\ Unanswered
               /\ SharedEntries = Bodies(f)
               /\ b \in Body /\ ~Shared!IsTip(b)
               /\ \/ /\ SharedTail = "whole"
                     /\ \/ pc[p] = "short" /\ ~Readable(file)
                        \/ /\ pc[p] = "newline" /\ Readable(file)
                           /\ Bodies(file) = Append(Bodies(f), b)
                           /\ MyEntry(p).entry_id = Append(Bodies(f), b)
                  \/ /\ SharedTail = "unterminated"
                     /\ pc[p] = "newline" /\ ~Readable(file)
                     /\ MyEntry(p).entry_id = Append(Bodies(f), b)
<1> DEFINE b == Head(plan[p])
<1>0. /\ lock = p /\ b \in Body /\ MyEntry(p) = NewEntry(parent[p], b)
      /\ parent[p] = Bodies(f)
      /\ Readable(Append(f, MyEntry(p)))
      /\ Bodies(Append(f, MyEntry(p))) = Append(Bodies(f), b)
      /\ ~Readable(Append(f, Torn))
      /\ f # <<>> => ~Readable([f EXCEPT ![Len(f)] = Torn])
  BY BeganFile DEF MyEntry
<1>1. lock = p /\ Unanswered /\ SharedEntries = Bodies(f)
  BY <1>0, NoProcAssumption DEF Unanswered, SharedEntries
<1>2. Head(plan[p]) \in Body /\ ~Shared!IsTip(Head(plan[p]))
  BY <1>1, BeganFile DEF Shared!IsTip
<1>3. MyEntry(p).entry_id = Append(Bodies(f), b)
  BY <1>0 DEF NewEntry, entry_id
<1>4. \/ pc[p] = "short" /\ ~Readable(file)
      \/ /\ pc[p] = "newline" /\ Readable(file)
         /\ Bodies(file) = Append(Bodies(f), b)
      \/ pc[p] = "newline" /\ ~Readable(file)
  BY <1>0 DEF Began
<1>5. SharedTail = IF pc[p] = "newline" /\ ~Readable(file) THEN "unterminated"
                   ELSE "whole"
  BY <1>1 DEF SharedTail
<1>6. QED
  BY <1>1, <1>2, <1>3, <1>4, <1>5

(* ... and while none does.                                                *)
LEMMA MappedAnswered ==
    ASSUME TypeOK, \A q \in Proc : pc[q] \notin {"short", "newline"}
    PROVE  /\ ~Unanswered
           /\ SharedEntries = IF Readable(file) THEN Bodies(file) ELSE <<>>
           /\ SharedTail = IF ~Readable(file) THEN "torn"
                           ELSE IF unterminated THEN "unterminated" ELSE "whole"
<1>1. ~Unanswered
  BY DEF TypeOK, Unanswered
<1>2. QED
  BY <1>1 DEF SharedEntries, SharedTail

(* A caller is told one more body.                                         *)
LEMMA ToldGrows ==
    ASSUME TypeOK, NEW p \in Proc, NEW id \in EntryId,
           acked' = [acked EXCEPT ![p] = Append(@, id)]
    PROVE  [q \in Proc |-> Told(q)]' =
             [[q \in Proc |-> Told(q)] EXCEPT ![p] = Append(@, LastOf(id))]
<1> DEFINE s == acked[p]
           t == acked'[p]
           u == Append(Told(p), LastOf(id))
<1>1. s \in Seq(EntryId) /\ t = Append(s, id)
  BY DEF TypeOK
<1>2. /\ Len(s) \in Nat /\ DOMAIN s = 1 .. Len(s) /\ DOMAIN t = 1 .. Len(s) + 1
      /\ \A k \in 1 .. Len(s) : t[k] = s[k]
      /\ t[Len(s) + 1] = id
  BY <1>1, AppendProperties, LenProperties
<1>3. \A k \in 1 .. Len(s) + 1 : k # Len(s) + 1 => k \in 1 .. Len(s)
  BY <1>2
<1>4. Told(p) = [k \in 1 .. Len(s) |-> LastOf(s[k])]
  BY <1>2 DEF Told
<1> DEFINE All == {LastOf(s[k]) : k \in 1 .. Len(s)} \cup {LastOf(id)}
<1>5. Told(p) \in Seq(All) /\ Len(Told(p)) = Len(s)
  <2>1. Told(p) \in [1 .. Len(s) -> All]
    BY <1>4
  <2>2. Told(p) \in Seq(All)
    BY <1>2, <2>1, SeqDef
  <2>3. QED
    BY <1>2, <2>1, <2>2, LenProperties
<1>6. /\ u \in Seq(All) /\ Len(u) = Len(s) + 1
      /\ \A k \in 1 .. Len(s) : u[k] = LastOf(s[k])
      /\ u[Len(s) + 1] = LastOf(id)
  BY <1>4, <1>5, AppendProperties, LenProperties
<1>7. u = [k \in 1 .. Len(s) + 1 |-> u[k]]
  BY <1>6, LenProperties
<1>8. Told(p)' = [k \in 1 .. Len(s) + 1 |-> LastOf(t[k])]
  BY <1>2 DEF Told
<1>9. Told(p)' = u
  <2>1. \A k \in 1 .. Len(s) + 1 : u[k] = LastOf(t[k])
    BY <1>2, <1>3, <1>6
  <2>2. QED
    BY <1>7, <1>8, <2>1
<1>10. \A q \in Proc : q # p => Told(q)' = Told(q)
  BY DEF TypeOK, Told
<1>11. QED
  BY <1>9, <1>10

(* A step that changes nothing others can see: whoever waits for an answer *)
(* still does, and nothing is written.                                     *)
LEMMA QuietStep ==
    ASSUME SharedInv, SharedInv', file' = file, unterminated' = unterminated,
           acked' = acked, parent' = parent,
           \A q \in Proc : \/ pc'[q] = pc[q]
                          \/ /\ pc[q] \notin {"short", "newline"}
                             /\ pc'[q] \notin {"short", "newline"}
    PROVE  UNCHANGED Shared!sharedVars
<1>1. TypeOK /\ TypeOK' /\ ControlInv /\ ControlInv'
  BY DEF SharedInv, IInv, ControlInv
<1>2. UNCHANGED [q \in Proc |-> Told(q)]
  BY DEF Told
<1>3. ASSUME NEW q \in Proc, pc[q] \in {"short", "newline"}
      PROVE  SharedEntries' = SharedEntries /\ SharedTail' = SharedTail
  <2>1. lock = q /\ lock' = q /\ pc'[q] = pc[q]
    BY <1>1, <1>3 DEF ControlInv, LockInv, Critical
  <2>2. Unanswered /\ Unanswered'
    BY <1>3, <2>1, NoProcAssumption DEF Unanswered
  <2>3. SharedEntries' = SharedEntries
    BY <2>1, <2>2 DEF SharedEntries
  <2>4. SharedTail' = SharedTail
    BY <2>1, <2>2 DEF SharedTail, Readable
  <2>5. QED
    BY <2>3, <2>4
<1>4. ASSUME \A q \in Proc : pc[q] \notin {"short", "newline"}
      PROVE  SharedEntries' = SharedEntries /\ SharedTail' = SharedTail
  <2>1. \A q \in Proc : pc'[q] \notin {"short", "newline"}
    BY <1>4
  <2>2. ~Unanswered /\ ~Unanswered'
    BY <1>1, <1>4, <2>1 DEF TypeOK, Unanswered
  <2>3. SharedEntries' = SharedEntries
    BY <2>2 DEF SharedEntries, Readable, Bodies
  <2>4. SharedTail' = SharedTail
    BY <2>2 DEF SharedTail, Readable
  <2>5. QED
    BY <2>3, <2>4
<1>5. QED
  BY <1>2, <1>3, <1>4 DEF Shared!sharedVars

LEMMA SharedInitial == Init => Shared!SharedInit
<1> SUFFICES ASSUME Init PROVE Shared!SharedInit
  OBVIOUS
<1>1. Readable(file) /\ Bodies(file) = <<>> /\ ~Unanswered
  BY TipIsHistory, EmptySeq DEF Init, Readable, Bodies, Unanswered
<1>2. SharedEntries = <<>> /\ SharedTail = "whole"
  BY <1>1 DEF Init, SharedEntries, SharedTail
<1>3. ASSUME NEW p \in Proc PROVE Told(p) = <<>>
  <2>1. DOMAIN acked[p] = 1 .. 0
    BY EmptySeq, LenProperties DEF Init
  <2>2. Told(p) \in [1 .. 0 -> {}]
    BY <2>1 DEF Told
  <2>3. Told(p) \in Seq({}) /\ Len(Told(p)) = 0
    BY <2>2, SeqDef, LenProperties
  <2>4. QED
    BY <2>3, EmptySeq
<1>4. QED
  BY <1>2, <1>3 DEF Shared!SharedInit

(* An answer, or the death of an invocation that waits for one, is a step  *)
(* of the shared log; every other step of the ledger changes nothing in it.*)
LEMMA SharedStep ==
    ASSUME SharedInv, SharedInv', [Next]_vars
    PROVE  [Shared!SharedNext]_(Shared!sharedVars)
<1> DEFINE told == [q \in Proc |-> Told(q)]
<1>0. IInv /\ IInv' /\ ControlInv /\ TypeOK /\ TypeOK'
  BY DEF SharedInv, IInv, ControlInv
<1>a. ASSUME NEW p \in Proc, pc[p] \in Critical
      PROVE  \A q \in Proc : q # p => pc[q] \notin Critical
  BY <1>0, <1>a, Alone
<1>1. ASSUME NEW p \in Proc, Acquire(p) \/ ReadFails(p) \/ ReadTip(p) \/ Finish(p)
      PROVE  UNCHANGED Shared!sharedVars
  <2>1. /\ file' = file /\ unterminated' = unterminated /\ acked' = acked
        /\ pc[p] \notin {"short", "newline"} /\ pc'[p] \notin {"short", "newline"}
        /\ \A q \in Proc : q # p => pc'[q] = pc[q]
    BY <1>0, <1>1 DEF Acquire, ReadFails, ReadTip, Finish, TypeOK
  <2>2. CASE ReadTip(p)
    <3>1. \A q \in Proc : /\ pc[q] \notin {"short", "newline"}
                         /\ pc'[q] \notin {"short", "newline"}
      BY <1>a, <2>1, <2>2 DEF ReadTip, Critical
    <3>2. ~Unanswered /\ ~Unanswered'
      BY <1>0, <3>1, MappedAnswered DEF TypeOK, Unanswered
    <3>3. SharedEntries' = SharedEntries /\ SharedTail' = SharedTail
      BY <2>1, <3>2 DEF SharedEntries, SharedTail, Readable, Bodies
    <3>4. told' = told
      BY <2>1 DEF Told
    <3>5. QED
      BY <3>3, <3>4 DEF Shared!sharedVars
  <2>3. CASE ~ReadTip(p)
    <3>1. parent' = parent
      BY <1>1, <2>3 DEF Acquire, ReadFails, Finish
    <3>2. QED
      BY <2>1, <3>1, QuietStep
  <2>4. QED
    BY <2>2, <2>3
<1>2. ASSUME NEW p \in Proc, SkipTip(p)
      PROVE  Shared!Skip(p, Head(plan[p])) /\ Head(plan[p]) \in Body
  <2>1. \A q \in Proc : /\ pc[q] \notin {"short", "newline"}
                       /\ pc'[q] \notin {"short", "newline"}
    BY <1>0, <1>2, <1>a DEF SkipTip, Critical, TypeOK
  <2>2. /\ file' = file /\ unterminated' = unterminated /\ Readable(file)
        /\ acked' = [acked EXCEPT ![p] = Append(@, TipId(file))]
        /\ file # <<>> /\ file[Len(file)].body = Head(plan[p])
    BY <1>2 DEF SkipTip, SameAsTip
  <2>3. /\ SharedEntries = Bodies(file) /\ SharedTail # "torn"
        /\ SharedEntries' = SharedEntries /\ SharedTail' = SharedTail
    <3>1. ~Unanswered /\ ~Unanswered'
      BY <1>0, <2>1 DEF TypeOK, Unanswered
    <3>2. SharedEntries = Bodies(file) /\ SharedEntries' = SharedEntries
      BY <2>2, <3>1 DEF SharedEntries, Readable, Bodies
    <3>3. SharedTail # "torn" /\ SharedTail' = SharedTail
      BY <2>2, <3>1 DEF SharedTail, Readable
    <3>4. QED
      BY <3>2, <3>3
  <2>4. /\ Bodies(file) \in Seq(Body) /\ Len(Bodies(file)) = Len(file)
        /\ TipId(file) = Bodies(file)
    BY <1>0, <2>2, TipIsHistory DEF SharedInv, TypeOK
  <2>5. Len(file) \in DOMAIN file
    BY <1>0, <2>2, EmptySeq, LenProperties DEF TypeOK
  <2>6. Bodies(file) # <<>> /\ LastOf(TipId(file)) = Head(plan[p])
    BY <2>2, <2>4, <2>5, EmptySeq, LenProperties DEF LastOf, Bodies
  <2>7. Shared!IsTip(Head(plan[p]))
    BY <2>3, <2>4, <2>6 DEF Shared!IsTip, LastOf
  <2>8. TipId(file) \in EntryId
    BY <2>4 DEF EntryId
  <2>9. told' = [told EXCEPT ![p] = Append(@, Head(plan[p]))]
    BY <1>0, <2>2, <2>6, <2>8, ToldGrows
  <2>10. Head(plan[p]) \in Body
    BY <1>0, <1>2, PlanTyped DEF SkipTip, ControlInv, LockInv, Critical
  <2>11. QED
    BY <2>3, <2>7, <2>9, <2>10 DEF Shared!Skip, Shared!Tell
<1>3. ASSUME NEW p \in Proc, ShortWrite(p) \/ WriteLine(p)
      PROVE  UNCHANGED Shared!sharedVars
  <2>1. /\ pc[p] = "write" /\ pc'[p] \in {"short", "newline"}
        /\ acked' = acked /\ parent' = parent /\ plan' = plan
        /\ unterminated => pc'[p] = "newline"
    BY <1>0, <1>3 DEF ShortWrite, WriteLine, TypeOK
  <2>2. file \in Seq(Line) /\ Began(p, file)
    BY <1>0, <2>1 DEF SharedInv, BeganInv, Began, TypeOK
  <2>3. \A q \in Proc : pc[q] \notin {"short", "newline"}
    BY <1>a, <2>1 DEF Critical
  <2>4. /\ SharedEntries = Bodies(file)
        /\ SharedTail = IF unterminated THEN "unterminated" ELSE "whole"
    BY <1>0, <2>2, <2>3, MappedAnswered DEF Began
  <2>5. Unanswered' /\ lock' = p
    BY <1>0, <2>1, NoProcAssumption
       DEF Unanswered, ControlInv, LockInv, Critical, IInv
  <2>6. SharedEntries' = Bodies(file)
    BY <1>0, <2>1, <2>2, <2>5, BeganFile DEF SharedEntries
  <2>7. \/ /\ unterminated /\ file # <<>>
           /\ file' = [file EXCEPT ![Len(file)] = Torn]
        \/ ~unterminated /\ pc'[p] = "newline" /\ file' = Append(file, MyEntry(p))
        \/ ~unterminated /\ pc'[p] = "short" /\ file' = Append(file, Torn)
    BY <1>0, <1>3 DEF ShortWrite, WriteLine, IInv, ControlInv, UnterminatedInv, TypeOK
  <2>8. /\ unterminated => ~Readable(file') /\ pc'[p] = "newline"
        /\ ~unterminated => \/ Readable(file')
                            \/ pc'[p] = "short" /\ ~Readable(file')
    BY <1>0, <2>1, <2>2, <2>7, BeganFile
  <2>9. SharedTail' = SharedTail
    BY <2>4, <2>5, <2>8 DEF SharedTail, Readable
  <2>10. told' = told
    BY <2>1 DEF Told
  <2>11. QED
    BY <2>4, <2>6, <2>9, <2>10 DEF Shared!sharedVars
<1>4. ASSUME NEW p \in Proc, WriteRest(p) PROVE UNCHANGED Shared!sharedVars
  <2>1. /\ pc[p] = "short" /\ pc'[p] = "newline"
        /\ acked' = acked /\ parent' = parent /\ lock' = lock
    BY <1>0, <1>4 DEF WriteRest, TypeOK
  <2>2. /\ \E f \in Seq(Line) : Began(p, f)
        /\ \E g \in Seq(Line) : Began(p, g)'
    BY <2>1 DEF SharedInv, BeganInv
  <2>3. lock = p /\ Unanswered /\ SharedTail = "whole" /\ ~Readable(file)
    BY <1>0, <2>1, <2>2, MappedUnanswered
  <2>4. lock' = p /\ Unanswered'
    BY <2>1, <2>3 DEF Unanswered
  <2>5. SharedEntries' = SharedEntries
    BY <2>1, <2>3, <2>4 DEF SharedEntries
  <2>6. Readable(file')
    <3>1. MyEntry(p) \in Line /\ MyEntry(p) # Torn /\ file # <<>>
      BY <1>0, <2>1, PlanTyped
         DEF ControlInv, LockInv, UnterminatedInv, Critical, Line
    <3>2. \A i \in DOMAIN file : i # Len(file) => file[i] # Torn
      BY <1>0 DEF IInv, ChainToTheTail, Chained
    <3>3. file' = [file EXCEPT ![Len(file)] = MyEntry(p)]
      BY <1>4 DEF WriteRest
    <3>4. QED
      BY <3>1, <3>2, <3>3 DEF Readable
  <2>7. SharedTail' = "whole"
    BY <2>4, <2>6 DEF SharedTail, Readable
  <2>8. told' = told
    BY <2>1 DEF Told
  <2>9. QED
    BY <2>3, <2>5, <2>7, <2>8 DEF Shared!sharedVars
<1>5. ASSUME NEW p \in Proc, WriteNewline(p)
      PROVE  /\ Head(plan[p]) \in Body
             /\ Shared!Add(p, Head(plan[p])) \/ Shared!Glue(p, Head(plan[p]))
  <2> DEFINE b == Head(plan[p])
  <2>1. /\ pc[p] = "newline" /\ file' = file /\ lock' = NoProc
        /\ unterminated' = FALSE
        /\ acked' = [acked EXCEPT ![p] = Append(@, MyEntry(p).entry_id)]
    BY <1>5 DEF WriteNewline
  <2>2. PICK f \in Seq(Line) : Began(p, f)
    BY <2>1 DEF SharedInv, BeganInv
  <2>3. /\ SharedEntries = Bodies(f) /\ b \in Body /\ ~Shared!IsTip(b)
        /\ MyEntry(p).entry_id = Append(Bodies(f), b)
        /\ \/ /\ SharedTail = "whole" /\ Readable(file)
              /\ Bodies(file) = Append(Bodies(f), b)
           \/ SharedTail = "unterminated" /\ ~Readable(file)
    BY <1>0, <2>1, <2>2, MappedUnanswered
  <2>4. Bodies(f) \in Seq(Body)
    BY <1>0, <2>2, BeganFile
  <2>5. ~Unanswered'
    BY <2>1 DEF Unanswered
  <2>6. SharedEntries' = IF Readable(file) THEN Bodies(file) ELSE <<>>
    BY <2>1, <2>5 DEF SharedEntries, Readable, Bodies
  <2>7. SharedTail' = IF Readable(file) THEN "whole" ELSE "torn"
    BY <2>1, <2>5 DEF SharedTail, Readable
  <2>8. told' = [told EXCEPT ![p] = Append(@, b)]
    <3>1. /\ Append(Bodies(f), b) \in EntryId
          /\ LastOf(Append(Bodies(f), b)) = b
      BY <2>3, <2>4, AppendProperties, LenProperties DEF EntryId, LastOf
    <3>2. QED
      BY <1>0, <2>1, <2>3, <3>1, ToldGrows
  <2>9. QED
    BY <2>3, <2>6, <2>7, <2>8 DEF Shared!Add, Shared!Glue, Shared!Tell
<1>6. ASSUME NEW p \in Proc, IoFails(p) \/ Crash(p), pc[p] \in {"short", "newline"}
      PROVE  /\ Head(plan[p]) \in Body
             /\ Shared!LeaveEntry(Head(plan[p])) \/ Shared!LeaveTorn(Head(plan[p]))
  <2> DEFINE b == Head(plan[p])
  <2>1. PICK f \in Seq(Line) : Began(p, f)
    BY <1>6 DEF SharedInv, BeganInv
  <2>2. /\ lock = p
        /\ SharedEntries = Bodies(f) /\ b \in Body /\ ~Shared!IsTip(b)
        /\ \/ /\ SharedTail = "whole" /\ Readable(file)
              /\ Bodies(file) = Append(Bodies(f), b)
           \/ SharedTail # "torn" /\ ~Readable(file)
    BY <1>0, <1>6, <2>1, MappedUnanswered
  <2>3. /\ file' = file /\ acked' = acked /\ unterminated' = unterminated
        /\ lock' = NoProc
    BY <1>6, <2>2 DEF IoFails, Crash
  <2>4. unterminated = TRUE
    BY <1>0, <1>6 DEF ControlInv, UnterminatedInv, TypeOK
  <2>5. ~Unanswered'
    BY <2>3 DEF Unanswered
  <2>6. SharedEntries' = IF Readable(file) THEN Bodies(file) ELSE <<>>
    BY <2>3, <2>5 DEF SharedEntries, Readable, Bodies
  <2>7. SharedTail' = IF Readable(file) THEN "unterminated" ELSE "torn"
    BY <2>3, <2>4, <2>5 DEF SharedTail, Readable
  <2>8. told' = told
    BY <2>3 DEF Told
  <2>9. QED
    BY <2>2, <2>6, <2>7, <2>8 DEF Shared!LeaveEntry, Shared!LeaveTorn
<1>7. ASSUME NEW p \in Proc, IoFails(p) \/ Crash(p), pc[p] \notin {"short", "newline"}
      PROVE  UNCHANGED Shared!sharedVars
  <2>1. /\ file' = file /\ unterminated' = unterminated /\ acked' = acked
        /\ parent' = parent /\ pc'[p] \notin {"short", "newline"}
        /\ \A q \in Proc : q # p => pc'[q] = pc[q]
    BY <1>0, <1>7 DEF IoFails, Crash, TypeOK
  <2>2. QED
    BY <1>7, <2>1, QuietStep
<1>8. CASE UNCHANGED vars
  BY <1>8, QuietStep DEF vars
<1>9. ASSUME NEW p \in Proc, Step(p) \/ WriteRest(p) \/ Fault(p)
      PROVE  [Shared!SharedNext]_(Shared!sharedVars)
  BY <1>1, <1>2, <1>3, <1>4, <1>5, <1>6, <1>7, <1>9
     DEF Step, Fault, Shared!SharedNext
<1>10. QED
  BY <1>8, <1>9 DEF Next, Terminated

(* Whatever dies or fails, the ledger is a log with atomic appends: each   *)
(* takes effect when it is answered or when the invocation dies, and what  *)
(* an interrupted one can leave is an entry without its newline or a log   *)
(* nobody can read.                                                        *)
THEOREM RefinesSharedLog == Spec => ImplementsShared
<1>1. SharedInv /\ SharedInv' /\ [Next]_vars =>
        [Shared!SharedNext]_(Shared!sharedVars)
  BY SharedStep
<1>2. QED
  BY <1>1, SharedInitial, SharedInvHolds, PTL
     DEF Spec, ImplementsShared, Shared!SharedSpec
=============================================================================
