---------------------------- MODULE LedgerProofs ----------------------------
(***************************************************************************)
(* Theorems about Ledger for any number of invocations, any bodies and any *)
(* plans: type correctness, the chain, durability of acknowledged entries, *)
(* finality of an unreadable file.                                         *)
(***************************************************************************)
EXTENDS Ledger, SequenceTheorems, TLAPS

(* Who is inside append() owns the lock and has a body to append.          *)
LockInv ==
    \A p \in Proc : pc[p] \in Critical => lock = p /\ plan[p] # <<>>

(* What the owner of the lock knows about the file at each point.          *)
ReadyInv ==
    \A p \in Proc : pc[p] = "write" =>
        /\ Readable(file)
        /\ parent[p] = TipId(file)
        /\ ~SameAsTip(file, Head(plan[p]))

(* A line cut short is the last one, follows a readable file and will be   *)
(* completed to an entry that continues it.                                *)
ShortInv ==
    \A p \in Proc : pc[p] = "short" =>
        /\ file[Len(file)] = Torn
        /\ parent[p] = IF Len(file) = 1 THEN GENESIS_PARENT
                       ELSE file[Len(file) - 1].entry_id
        /\ Len(file) > 1 => file[Len(file) - 1].body # Head(plan[p])

(* Before its newline is written the entry is the last line, unless it     *)
(* fell on an unterminated line.                                           *)
WrittenInv ==
    \A p \in Proc : pc[p] = "newline" =>
        \/ file[Len(file)] = Torn
        \/ file[Len(file)].entry_id = MyEntry(p).entry_id

UnterminatedInv ==
    /\ unterminated => file # <<>>
    /\ \A p \in Proc : pc[p] \in {"short", "newline"} => unterminated

(* While a line is being completed the acknowledged entries are in the     *)
(* lines before it.                                                        *)
AckInv ==
    Readable(file) \/ (\E p \in Proc : pc[p] = "short") => AckedIn(file)

OwnerInv == ReadyInv /\ ShortInv /\ WrittenInv

ControlInv == TypeOK /\ LockInv /\ UnterminatedInv

(* The inductive invariant: ChainToTheTail alone is not inductive, since   *)
(* whether the next line continues the chain depends on what its writer    *)
(* read before, and on nobody having written since.                        *)
IInv ==
    /\ ControlInv
    /\ OwnerInv
    /\ ChainToTheTail
    /\ NoDuplicateNeighbours
    /\ AckInv

-----------------------------------------------------------------------------
(* Sequences of lines: what is appended and what is put over the last one. *)
LEMMA AppendedLine ==
    ASSUME NEW f \in Seq(Line), NEW e \in Line
    PROVE  /\ Append(f, e) \in Seq(Line)
           /\ Append(f, e) # <<>>
           /\ Len(f) \in Nat /\ Len(Append(f, e)) = Len(f) + 1
           /\ DOMAIN f = 1 .. Len(f)
           /\ DOMAIN Append(f, e) = 1 .. Len(f) + 1
           /\ \A i \in 1 .. Len(f) : Append(f, e)[i] = f[i]
           /\ Append(f, e)[Len(f) + 1] = e
  BY AppendProperties, LenProperties

LEMMA ReplacedLine ==
    ASSUME NEW f \in Seq(Line), f # <<>>, NEW e \in Line
    PROVE  LET g == [f EXCEPT ![Len(f)] = e]
           IN  /\ g \in Seq(Line)
               /\ g # <<>>
               /\ Len(f) \in Nat /\ Len(f) >= 1 /\ Len(g) = Len(f)
               /\ DOMAIN f = 1 .. Len(f) /\ DOMAIN g = 1 .. Len(f)
               /\ \A i \in 1 .. Len(f) - 1 : g[i] = f[i]
               /\ g[Len(f)] = e
<1>1. Len(f) \in Nat /\ Len(f) >= 1 /\ Len(f) \in 1 .. Len(f)
  BY EmptySeq, LenProperties
<1>2. QED
  BY <1>1, ExceptSeq, EmptySeq, LenProperties

(* The id and the entry an invocation writes are well typed.               *)
LEMMA EntryTyped ==
    ASSUME NEW par \in EntryId, NEW b \in Body
    PROVE  /\ entry_id(par, b) \in EntryId
           /\ NewEntry(par, b) \in LedgerEntry
           /\ NewEntry(par, b) # Torn
  BY TornAssumption DEF NewEntry, entry_id, EntryId, LedgerEntry

LEMMA TipTyped ==
    ASSUME NEW f \in Seq(Line), Readable(f)
    PROVE  TipId(f) \in EntryId
  BY DEF TipId, Readable, GENESIS_PARENT, EntryId, LedgerEntry, Line

(* What an invocation inside append() appends, and what is left after it.  *)
LEMMA PlanTyped ==
    ASSUME TypeOK, NEW p \in Proc, plan[p] # <<>>
    PROVE  /\ Head(plan[p]) \in Body
           /\ Tail(plan[p]) \in Seq(Body)
           /\ MyEntry(p).entry_id \in EntryId
           /\ MyEntry(p) \in LedgerEntry
           /\ MyEntry(p) # Torn
<1>1. plan[p] \in Seq(Body) /\ parent[p] \in EntryId
  BY DEF TypeOK
<1>2. Head(plan[p]) \in Body /\ Tail(plan[p]) \in Seq(Body)
  BY <1>1, HeadTailProperties
<1>3. MyEntry(p) \in LedgerEntry /\ MyEntry(p) # Torn
  BY <1>1, <1>2, EntryTyped DEF MyEntry
<1>4. QED
  BY <1>2, <1>3 DEF LedgerEntry

-----------------------------------------------------------------------------
(* Type correctness, with the two facts about control it rests on.         *)
LEMMA ControlInit == Init => ControlInv
<1> SUFFICES ASSUME Init PROVE ControlInv
  OBVIOUS
<1> USE DEF Init
<1>1. plan \in [Proc -> Seq(Body)]
  BY PlansAssumption
<1>2. parent \in [Proc -> EntryId] /\ acked \in [Proc -> Seq(EntryId)]
  BY EmptySeq DEF EntryId, GENESIS_PARENT
<1>3. file \in Seq(Line)
  BY EmptySeq
<1>4. TypeOK
  BY <1>1, <1>2, <1>3 DEF TypeOK
<1>5. LockInv /\ UnterminatedInv
  BY DEF LockInv, UnterminatedInv, Critical
<1>6. QED
  BY <1>4, <1>5 DEF ControlInv

LEMMA LockStep ==
    ASSUME ControlInv, [Next]_vars
    PROVE  LockInv'
<1> USE NoProcAssumption DEF ControlInv, TypeOK, LockInv, Critical, Ended
<1>1. ASSUME NEW p \in Proc, Acquire(p) PROVE LockInv'
  BY <1>1 DEF Acquire, LockFree
<1>2. ASSUME NEW p \in Proc, ReadFails(p) PROVE LockInv'
  BY <1>2 DEF ReadFails
<1>3. ASSUME NEW p \in Proc, SkipTip(p) PROVE LockInv'
  BY <1>3 DEF SkipTip
<1>4. ASSUME NEW p \in Proc, ReadTip(p) PROVE LockInv'
  BY <1>4 DEF ReadTip
<1>5. ASSUME NEW p \in Proc, WriteLine(p) PROVE LockInv'
  BY <1>5 DEF WriteLine
<1>6. ASSUME NEW p \in Proc, WriteNewline(p) PROVE LockInv'
  BY <1>6 DEF WriteNewline
<1>7. ASSUME NEW p \in Proc, Finish(p) PROVE LockInv'
  BY <1>7 DEF Finish
<1>8. ASSUME NEW p \in Proc, ShortWrite(p) PROVE LockInv'
  BY <1>8 DEF ShortWrite
<1>9. ASSUME NEW p \in Proc, WriteRest(p) PROVE LockInv'
  BY <1>9 DEF WriteRest
<1>10. ASSUME NEW p \in Proc, IoFails(p) PROVE LockInv'
  BY <1>10 DEF IoFails
<1>11. ASSUME NEW p \in Proc, Crash(p) PROVE LockInv'
  BY <1>11 DEF Crash
<1>12. CASE UNCHANGED vars
  BY <1>12 DEF vars
<1>13. QED
  BY <1>1, <1>2, <1>3, <1>4, <1>5, <1>6, <1>7, <1>8, <1>9, <1>10, <1>11, <1>12
     DEF Next, Step, Fault, Terminated

LEMMA TypeStep ==
    ASSUME ControlInv, [Next]_vars
    PROVE  TypeOK' /\ UnterminatedInv'
<1> DEFINE Goal == TypeOK' /\ UnterminatedInv'
<1> USE NoProcAssumption
    DEF ControlInv, TypeOK, LockInv, UnterminatedInv, Critical, Ended
<1>1. ASSUME NEW p \in Proc, Acquire(p) PROVE Goal
  BY <1>1 DEF Acquire
<1>2. ASSUME NEW p \in Proc, ReadFails(p) PROVE Goal
  BY <1>2 DEF ReadFails
<1>3. ASSUME NEW p \in Proc, SkipTip(p) PROVE Goal
  <2>1. TipId(file) \in EntryId /\ Tail(plan[p]) \in Seq(Body)
    BY <1>3, TipTyped, PlanTyped DEF SkipTip
  <2>2. QED
    BY <1>3, <2>1 DEF SkipTip
<1>4. ASSUME NEW p \in Proc, ReadTip(p) PROVE Goal
  BY <1>4, TipTyped DEF ReadTip, ParentOfNext
<1>5. ASSUME NEW p \in Proc, WriteLine(p) PROVE Goal
  <2>1. MyEntry(p) \in Line /\ Torn \in Line
    BY <1>5, PlanTyped DEF WriteLine, Line
  <2>2. CASE unterminated
    <3>1. file' = [file EXCEPT ![Len(file)] = Torn]
      BY <1>5, <2>2 DEF WriteLine
    <3>2. file' \in Seq(Line) /\ file' # <<>>
      BY <3>1, <2>1, <2>2, ReplacedLine
    <3>3. QED
      BY <1>5, <3>2 DEF WriteLine
  <2>3. CASE ~unterminated
    <3>1. file' \in Seq(Line) /\ file' # <<>>
      BY <1>5, <2>1, <2>3, AppendedLine DEF WriteLine
    <3>2. QED
      BY <1>5, <3>1 DEF WriteLine
  <2>4. QED
    BY <2>2, <2>3
<1>6. ASSUME NEW p \in Proc, WriteNewline(p) PROVE Goal
  <2>1. MyEntry(p).entry_id \in EntryId /\ Tail(plan[p]) \in Seq(Body)
    BY <1>6, PlanTyped DEF WriteNewline
  <2>2. acked' \in [Proc -> Seq(EntryId)] /\ plan' \in [Proc -> Seq(Body)]
    BY <1>6, <2>1, AppendProperties DEF WriteNewline
  <2>3. \A q \in Proc : q # p => pc[q] \notin Critical
    BY <1>6 DEF WriteNewline
  <2>4. UnterminatedInv'
    BY <1>6, <2>3 DEF WriteNewline
  <2>5. QED
    BY <1>6, <2>2, <2>4 DEF WriteNewline
<1>7. ASSUME NEW p \in Proc, Finish(p) PROVE Goal
  BY <1>7 DEF Finish
<1>8. ASSUME NEW p \in Proc, ShortWrite(p) PROVE Goal
  <2>1. file' \in Seq(Line) /\ file' # <<>>
    BY <1>8, AppendedLine DEF ShortWrite, Line
  <2>2. QED
    BY <1>8, <2>1 DEF ShortWrite
<1>9. ASSUME NEW p \in Proc, WriteRest(p) PROVE Goal
  <2>1. MyEntry(p) \in Line
    BY <1>9, PlanTyped DEF WriteRest, Line
  <2>2. file' \in Seq(Line) /\ file' # <<>>
    BY <1>9, <2>1, ReplacedLine DEF WriteRest
  <2>3. QED
    BY <1>9, <2>2 DEF WriteRest
<1>10. ASSUME NEW p \in Proc, IoFails(p) PROVE Goal
  BY <1>10 DEF IoFails
<1>11. ASSUME NEW p \in Proc, Crash(p) PROVE Goal
  BY <1>11 DEF Crash
<1>12. CASE UNCHANGED vars
  BY <1>12 DEF vars
<1>13. QED
  BY <1>1, <1>2, <1>3, <1>4, <1>5, <1>6, <1>7, <1>8, <1>9, <1>10, <1>11, <1>12
     DEF Next, Step, Fault, Terminated

LEMMA ControlStep == ControlInv /\ [Next]_vars => ControlInv'
  BY LockStep, TypeStep DEF ControlInv

(* Type correctness: what is on a line is always an entry or text that     *)
(* does not parse, and every acknowledged id is the id of some history.    *)
THEOREM TypeCorrect == Spec => []TypeOK
<1>1. ControlInv => TypeOK
  BY DEF ControlInv
<1>2. QED
  BY <1>1, ControlInit, ControlStep, PTL DEF Spec

-----------------------------------------------------------------------------
(* What each way of writing does to a chain: a whole line, the beginning   *)
(* of a line, text behind an unterminated line, the rest of a line.        *)
LEMMA WholeLine ==
    ASSUME NEW f \in Seq(Line), Chained(f), Distinct(f), Readable(f),
           NEW b \in Body, ~SameAsTip(f, b)
    PROVE  LET g == Append(f, NewEntry(TipId(f), b))
           IN  Chained(g) /\ Distinct(g)
<1> DEFINE e == NewEntry(TipId(f), b)
           g == Append(f, e)
<1>1. e \in Line /\ e # Torn
  BY TipTyped, EntryTyped DEF Line
<1>2. /\ Len(f) \in Nat /\ Len(g) = Len(f) + 1
      /\ DOMAIN f = 1 .. Len(f) /\ DOMAIN g = 1 .. Len(f) + 1
      /\ \A i \in 1 .. Len(f) : g[i] = f[i]
      /\ g[Len(f) + 1] = e
  BY <1>1, AppendedLine
<1>3. f # <<>> => Len(f) # 0
  BY EmptySeq
<1>4. e.parent_entry_id = TipId(f) /\ e.body = b
      /\ e.entry_id = entry_id(TipId(f), b)
  BY DEF NewEntry
<1> HIDE DEF e, g
<1>5. Linked(g, Len(f) + 1)
  BY <1>2, <1>3, <1>4, EmptySeq DEF Linked, TipId
<1>6. ASSUME NEW i \in 1 .. Len(f) PROVE g[i] # Torn /\ Linked(g, i)
  BY <1>2, <1>6 DEF Linked, Chained, Readable
<1>7. Chained(g)
  BY <1>2, <1>5, <1>6, <1>1 DEF Chained
<1>8. Distinct(g)
  BY <1>2, <1>3, <1>4 DEF Distinct, SameAsTip
<1>9. QED
  BY <1>7, <1>8 DEF g, e

LEMMA CutLine ==
    ASSUME NEW f \in Seq(Line), Chained(f), Distinct(f), Readable(f)
    PROVE  LET g == Append(f, Torn)
           IN  Chained(g) /\ Distinct(g)
<1> DEFINE g == Append(f, Torn)
<1>1. /\ Len(f) \in Nat /\ Len(g) = Len(f) + 1
      /\ DOMAIN f = 1 .. Len(f) /\ DOMAIN g = 1 .. Len(f) + 1
      /\ \A i \in 1 .. Len(f) : g[i] = f[i]
      /\ g[Len(f) + 1] = Torn
  BY AppendedLine DEF Line
<1> HIDE DEF g
<1>2. ASSUME NEW i \in 1 .. Len(f) PROVE g[i] # Torn /\ Linked(g, i)
  BY <1>1, <1>2 DEF Linked, Chained, Readable
<1>3. Chained(g)
  BY <1>1, <1>2 DEF Chained
<1>4. Distinct(g)
  BY <1>1 DEF Distinct
<1>5. QED
  BY <1>3, <1>4 DEF g

LEMMA GluedLine ==
    ASSUME NEW f \in Seq(Line), f # <<>>, Chained(f), Distinct(f)
    PROVE  LET g == [f EXCEPT ![Len(f)] = Torn]
           IN  Chained(g) /\ Distinct(g) /\ ~Readable(g)
<1> DEFINE g == [f EXCEPT ![Len(f)] = Torn]
<1>1. /\ Len(f) \in Nat /\ Len(f) >= 1 /\ Len(g) = Len(f)
      /\ DOMAIN f = 1 .. Len(f) /\ DOMAIN g = 1 .. Len(f)
      /\ \A i \in 1 .. Len(f) - 1 : g[i] = f[i]
      /\ g[Len(f)] = Torn
  BY ReplacedLine DEF Line
<1> HIDE DEF g
<1>2. ASSUME NEW i \in 1 .. Len(f) - 1
      PROVE  g[i] # Torn /\ Linked(g, i)
  BY <1>1, <1>2 DEF Linked, Chained
<1>3. Chained(g)
  BY <1>1, <1>2 DEF Chained
<1>4. Distinct(g)
  BY <1>1 DEF Distinct
<1>5. ~Readable(g)
  BY <1>1 DEF Readable
<1>6. QED
  BY <1>3, <1>4, <1>5 DEF g

LEMMA RestOfLine ==
    ASSUME NEW f \in Seq(Line), f # <<>>, Chained(f), Distinct(f),
           f[Len(f)] = Torn,
           NEW par \in EntryId, NEW b \in Body,
           par = IF Len(f) = 1 THEN GENESIS_PARENT ELSE f[Len(f) - 1].entry_id,
           Len(f) > 1 => f[Len(f) - 1].body # b
    PROVE  LET g == [f EXCEPT ![Len(f)] = NewEntry(par, b)]
           IN  Chained(g) /\ Distinct(g)
<1> DEFINE e == NewEntry(par, b)
           g == [f EXCEPT ![Len(f)] = e]
<1>1. e \in Line /\ e # Torn
  BY EntryTyped DEF Line
<1>2. /\ Len(f) \in Nat /\ Len(f) >= 1 /\ Len(g) = Len(f)
      /\ DOMAIN f = 1 .. Len(f) /\ DOMAIN g = 1 .. Len(f)
      /\ \A i \in 1 .. Len(f) - 1 : g[i] = f[i]
      /\ g[Len(f)] = e
  BY <1>1, ReplacedLine
<1>3. e.parent_entry_id = par /\ e.body = b /\ e.entry_id = entry_id(par, b)
  BY DEF NewEntry
<1> HIDE DEF e, g
<1>4. Linked(g, Len(f))
  BY <1>2, <1>3 DEF Linked
<1>5. ASSUME NEW i \in 1 .. Len(f) - 1
      PROVE  g[i] # Torn /\ Linked(g, i)
  BY <1>2, <1>5 DEF Linked, Chained
<1>6. Chained(g)
  BY <1>1, <1>2, <1>4, <1>5 DEF Chained
<1>7. Distinct(g)
  BY <1>2, <1>3 DEF Distinct
<1>8. QED
  BY <1>6, <1>7 DEF g, e

-----------------------------------------------------------------------------
(* Who is inside append() is alone there.                                  *)
LEMMA Alone ==
    ASSUME ControlInv, NEW p \in Proc, pc[p] \in Critical,
           NEW q \in Proc, pc[q] \in Critical
    PROVE  q = p
  BY DEF ControlInv, LockInv

(* A step that leaves the file alone, and leaves alone whoever is writing. *)
LEMMA OwnerKept ==
    ASSUME OwnerInv, file' = file,
           \A q \in Proc : pc'[q] \in {"write", "short", "newline"} =>
               pc'[q] = pc[q] /\ parent'[q] = parent[q] /\ plan'[q] = plan[q]
    PROVE  OwnerInv'
<1>1. ReadyInv'
  BY DEF OwnerInv, ReadyInv
<1>2. ShortInv'
  BY DEF OwnerInv, ShortInv
<1>3. WrittenInv'
  BY DEF OwnerInv, WrittenInv, MyEntry
<1>4. QED
  BY <1>1, <1>2, <1>3 DEF OwnerInv

LEMMA OwnerStep ==
    ASSUME IInv, [Next]_vars
    PROVE  OwnerInv'
<1> USE DEF IInv, ControlInv, TypeOK
<1>1. ASSUME NEW p \in Proc, Acquire(p) PROVE OwnerInv'
  BY <1>1, OwnerKept DEF Acquire
<1>2. ASSUME NEW p \in Proc, ReadFails(p) PROVE OwnerInv'
  BY <1>2, OwnerKept DEF ReadFails
<1>3. ASSUME NEW p \in Proc, SkipTip(p) PROVE OwnerInv'
  BY <1>3, OwnerKept DEF SkipTip
<1>4. ASSUME NEW p \in Proc, ReadTip(p) PROVE OwnerInv'
  <2>1. \A q \in Proc : q # p => pc[q] \notin Critical
    BY <1>4, Alone DEF ReadTip, Critical
  <2>2. ReadyInv'
    BY <1>4, <2>1 DEF ReadTip, ReadyInv, ParentOfNext, Critical
  <2>3. ShortInv' /\ WrittenInv'
    BY <1>4, <2>1 DEF ReadTip, ShortInv, WrittenInv, Critical
  <2>4. QED
    BY <2>2, <2>3 DEF OwnerInv
<1>5. ASSUME NEW p \in Proc, WriteLine(p) PROVE OwnerInv'
  <2>1. \A q \in Proc : q # p => pc[q] \notin Critical
    BY <1>5, Alone DEF WriteLine, Critical
  <2>2. ReadyInv' /\ ShortInv'
    BY <1>5, <2>1 DEF WriteLine, ReadyInv, ShortInv, Critical
  <2>3. MyEntry(p)' = MyEntry(p)
    BY <1>5 DEF WriteLine, MyEntry
  <2>4. CASE unterminated
    <3>1. file # <<>> /\ Torn \in Line
      BY <2>4 DEF UnterminatedInv, Line
    <3>2. file'[Len(file')] = Torn
      BY <1>5, <2>4, <3>1, ReplacedLine DEF WriteLine
    <3>3. WrittenInv'
      BY <1>5, <2>1, <3>2 DEF WriteLine, WrittenInv, Critical
    <3>4. QED
      BY <2>2, <3>3 DEF OwnerInv
  <2>5. CASE ~unterminated
    <3>1. MyEntry(p) \in Line
      BY <1>5, PlanTyped DEF WriteLine, LockInv, Critical, Line
    <3>2. file'[Len(file')] = MyEntry(p)
      BY <1>5, <2>5, <3>1, AppendedLine DEF WriteLine
    <3>3. WrittenInv'
      BY <1>5, <2>1, <2>3, <3>2 DEF WriteLine, WrittenInv, Critical
    <3>4. QED
      BY <2>2, <3>3 DEF OwnerInv
  <2>6. QED
    BY <2>4, <2>5
<1>6. ASSUME NEW p \in Proc, WriteNewline(p) PROVE OwnerInv'
  <2>1. \A q \in Proc : q # p => pc[q] \notin Critical
    BY <1>6, Alone DEF WriteNewline, Critical
  <2>2. QED
    BY <1>6, <2>1, OwnerKept DEF WriteNewline, Critical
<1>7. ASSUME NEW p \in Proc, Finish(p) PROVE OwnerInv'
  BY <1>7, OwnerKept DEF Finish
<1>8. ASSUME NEW p \in Proc, ShortWrite(p) PROVE OwnerInv'
  <2>1. \A q \in Proc : q # p => pc[q] \notin Critical
    BY <1>8, Alone DEF ShortWrite, Critical
  <2>2. ReadyInv' /\ WrittenInv'
    BY <1>8, <2>1 DEF ShortWrite, ReadyInv, WrittenInv, Critical
  <2>3. /\ parent[p] = TipId(file) /\ ~SameAsTip(file, Head(plan[p]))
        /\ parent'[p] = parent[p] /\ plan'[p] = plan[p]
    BY <1>8 DEF ShortWrite, OwnerInv, ReadyInv
  <2>4. /\ Len(file) \in Nat /\ Len(file') = Len(file) + 1
        /\ \A i \in 1 .. Len(file) : file'[i] = file[i]
        /\ file'[Len(file) + 1] = Torn
    BY <1>8, AppendedLine DEF ShortWrite, Line
  <2>5. file = <<>> <=> Len(file) = 0
    BY EmptySeq
  <2>6. parent[p] = IF Len(file') = 1 THEN GENESIS_PARENT
                    ELSE file'[Len(file') - 1].entry_id
    BY <2>3, <2>4, <2>5 DEF TipId
  <2>7. ASSUME Len(file') > 1
        PROVE  file'[Len(file') - 1].body # Head(plan[p])
    <3>1. Len(file) \in 1 .. Len(file) /\ file # <<>>
      BY <2>4, <2>5, <2>7
    <3>2. file[Len(file)].body # Head(plan[p])
      BY <2>3, <3>1 DEF SameAsTip
    <3>3. file'[Len(file') - 1] = file[Len(file)]
      BY <2>4, <3>1
    <3>4. QED
      BY <3>2, <3>3
  <2>8. file'[Len(file')] = Torn
    BY <2>4
  <2>9. ShortInv'
    BY <1>8, <2>1, <2>3, <2>6, <2>7, <2>8 DEF ShortWrite, ShortInv, Critical
  <2>10. QED
    BY <2>2, <2>9 DEF OwnerInv
<1>9. ASSUME NEW p \in Proc, WriteRest(p) PROVE OwnerInv'
  <2>1. \A q \in Proc : q # p => pc[q] \notin Critical
    BY <1>9, Alone DEF WriteRest, Critical
  <2>2. ReadyInv' /\ ShortInv'
    BY <1>9, <2>1 DEF WriteRest, ReadyInv, ShortInv, Critical
  <2>3. MyEntry(p)' = MyEntry(p)
    BY <1>9 DEF WriteRest, MyEntry
  <2>4. MyEntry(p) \in Line /\ file # <<>>
    BY <1>9, PlanTyped
       DEF WriteRest, LockInv, UnterminatedInv, Critical, Line
  <2>5. file'[Len(file')] = MyEntry(p)
    BY <1>9, <2>4, ReplacedLine DEF WriteRest
  <2>6. WrittenInv'
    BY <1>9, <2>1, <2>3, <2>5 DEF WriteRest, WrittenInv, Critical
  <2>7. QED
    BY <2>2, <2>6 DEF OwnerInv
<1>10. ASSUME NEW p \in Proc, IoFails(p) PROVE OwnerInv'
  BY <1>10, OwnerKept DEF IoFails
<1>11. ASSUME NEW p \in Proc, Crash(p) PROVE OwnerInv'
  BY <1>11, OwnerKept DEF Crash
<1>12. CASE UNCHANGED vars
  BY <1>12, OwnerKept DEF vars
<1>13. QED
  BY <1>1, <1>2, <1>3, <1>4, <1>5, <1>6, <1>7, <1>8, <1>9, <1>10, <1>11, <1>12
     DEF Next, Step, Fault, Terminated

-----------------------------------------------------------------------------
(* Every step leaves the file a chain without repeated neighbours.         *)
LEMMA FileStep ==
    ASSUME IInv, [Next]_vars
    PROVE  ChainToTheTail' /\ NoDuplicateNeighbours'
<1> DEFINE Goal == ChainToTheTail' /\ NoDuplicateNeighbours'
<1>1. file \in Seq(Line) /\ Chained(file) /\ Distinct(file)
  BY DEF IInv, ControlInv, TypeOK, ChainToTheTail, NoDuplicateNeighbours
<1>2. ASSUME file' = file PROVE Goal
  BY <1>1, <1>2 DEF ChainToTheTail, NoDuplicateNeighbours
<1>3. ASSUME Chained(file') /\ Distinct(file') PROVE Goal
  BY <1>3 DEF ChainToTheTail, NoDuplicateNeighbours
<1>4. ASSUME NEW p \in Proc, pc[p] \in Critical
      PROVE  /\ Head(plan[p]) \in Body /\ parent[p] \in EntryId
             /\ MyEntry(p) = NewEntry(parent[p], Head(plan[p]))
  BY <1>4, PlanTyped DEF IInv, ControlInv, TypeOK, LockInv, MyEntry
<1>5. ASSUME NEW p \in Proc, pc[p] = "write"
      PROVE  /\ Readable(file) /\ parent[p] = TipId(file)
             /\ ~SameAsTip(file, Head(plan[p]))
  BY <1>5 DEF IInv, OwnerInv, ReadyInv
<1>6. ASSUME NEW p \in Proc, WriteLine(p) PROVE Goal
  <2>1. pc[p] = "write" /\ pc[p] \in Critical
    BY <1>6 DEF WriteLine, Critical
  <2>2. CASE unterminated
    <3>1. file # <<>> /\ file' = [file EXCEPT ![Len(file)] = Torn]
      BY <1>6, <2>2 DEF WriteLine, IInv, ControlInv, UnterminatedInv
    <3>2. QED
      BY <1>1, <1>3, <3>1, GluedLine
  <2>3. CASE ~unterminated
    <3>1. file' = Append(file, NewEntry(TipId(file), Head(plan[p])))
      BY <1>4, <1>5, <1>6, <2>1, <2>3 DEF WriteLine
    <3>2. QED
      BY <1>1, <1>3, <1>4, <1>5, <2>1, <3>1, WholeLine
  <2>4. QED
    BY <2>2, <2>3
<1>7. ASSUME NEW p \in Proc, ShortWrite(p) PROVE Goal
  <2>1. Readable(file) /\ file' = Append(file, Torn)
    BY <1>5, <1>7 DEF ShortWrite
  <2>2. QED
    BY <1>1, <1>3, <2>1, CutLine
<1>8. ASSUME NEW p \in Proc, WriteRest(p) PROVE Goal
  <2>1. pc[p] = "short" /\ pc[p] \in Critical
    BY <1>8 DEF WriteRest, Critical
  <2>2. file # <<>>
    BY <2>1 DEF IInv, ControlInv, UnterminatedInv
  <2>3. /\ file[Len(file)] = Torn
        /\ parent[p] = IF Len(file) = 1 THEN GENESIS_PARENT
                       ELSE file[Len(file) - 1].entry_id
        /\ Len(file) > 1 => file[Len(file) - 1].body # Head(plan[p])
    BY <2>1 DEF IInv, OwnerInv, ShortInv
  <2>4. file' = [file EXCEPT ![Len(file)] = NewEntry(parent[p], Head(plan[p]))]
    BY <1>4, <1>8, <2>1 DEF WriteRest
  <2>5. QED
    BY <1>1, <1>3, <1>4, <2>1, <2>2, <2>3, <2>4, RestOfLine
<1>9. \/ file' = file
      \/ \E p \in Proc : WriteLine(p) \/ ShortWrite(p) \/ WriteRest(p)
  BY DEF Next, Step, Fault, Terminated, vars, Acquire, ReadFails, SkipTip,
         ReadTip, WriteNewline, Finish, IoFails, Crash
<1>10. QED
  BY <1>2, <1>6, <1>7, <1>8, <1>9

-----------------------------------------------------------------------------
(* Acknowledged entries survive a step that keeps every line that parses.  *)
LEMMA AckKept ==
    ASSUME AckedIn(file), acked' = acked,
           \A i \in DOMAIN file :
               file[i] # Torn => i \in DOMAIN file' /\ file'[i] = file[i]
    PROVE  AckedIn(file)'
  BY DEF AckedIn

(* ... and one that acknowledges an id which is in the file.               *)
LEMMA AckAdded ==
    ASSUME AckedIn(file), file' = file, TypeOK, NEW p \in Proc,
           NEW id \in EntryId, acked' = [acked EXCEPT ![p] = Append(@, id)],
           \E i \in DOMAIN file : file[i] # Torn /\ file[i].entry_id = id
    PROVE  AckedIn(file)'
<1>1. acked[p] \in Seq(EntryId) /\ acked'[p] = Append(acked[p], id)
  BY DEF TypeOK
<1>2. \A q \in Proc : q # p => acked'[q] = acked[q]
  BY DEF TypeOK
<1>3. \A k \in DOMAIN acked'[p] :
        \/ k \in DOMAIN acked[p] /\ acked'[p][k] = acked[p][k]
        \/ acked'[p][k] = id
  BY <1>1, AppendProperties, LenProperties
<1>4. QED
  BY <1>2, <1>3 DEF AckedIn

LEMMA AckStep ==
    ASSUME IInv, [Next]_vars
    PROVE  AckInv'
<1> DEFINE SomeoneShort == \E q \in Proc : pc[q] = "short"
<1> USE DEF IInv, ControlInv, TypeOK, AckInv
<1>1. ASSUME file' = file, acked' = acked, SomeoneShort' => SomeoneShort
      PROVE  AckInv'
  BY <1>1 DEF Readable, AckedIn
<1>2. ASSUME NEW p \in Proc, pc[p] \in Critical
      PROVE  \A q \in Proc : q # p => pc[q] # "short"
  BY <1>2, Alone DEF Critical
<1>3. ASSUME NEW p \in Proc, SkipTip(p) PROVE AckInv'
  <2>1. Readable(file) /\ AckedIn(file) /\ file' = file /\ file # <<>>
    BY <1>3 DEF SkipTip, SameAsTip
  <2>2. Len(file) \in DOMAIN file
    BY <2>1, EmptySeq, LenProperties
  <2>3. TipId(file) \in EntryId /\ file[Len(file)] # Torn
        /\ file[Len(file)].entry_id = TipId(file)
    BY <2>1, <2>2, TipTyped DEF TipId, Readable
  <2>4. QED
    BY <1>3, <2>1, <2>2, <2>3, AckAdded DEF SkipTip
<1>4. ASSUME NEW p \in Proc, WriteLine(p) PROVE AckInv'
  <2>1. CASE unterminated
    <3>1. ~Readable(file')
      BY <1>4, <2>1, GluedLine
         DEF WriteLine, UnterminatedInv, ChainToTheTail, NoDuplicateNeighbours
    <3>2. ~SomeoneShort'
      BY <1>2, <1>4 DEF WriteLine, Critical
    <3>3. QED
      BY <3>1, <3>2 DEF Readable
  <2>2. CASE ~unterminated
    <3>1. AckedIn(file) /\ acked' = acked
      BY <1>4 DEF WriteLine, OwnerInv, ReadyInv
    <3>2. MyEntry(p) \in Line
      BY <1>4, PlanTyped DEF WriteLine, LockInv, Critical, Line
    <3>3. \A i \in DOMAIN file : i \in DOMAIN file' /\ file'[i] = file[i]
      BY <1>4, <2>2, <3>2, AppendedLine DEF WriteLine
    <3>4. QED
      BY <3>1, <3>3, AckKept
  <2>3. QED
    BY <2>1, <2>2
<1>5. ASSUME NEW p \in Proc, WriteNewline(p) PROVE AckInv'
  <2>1. ~SomeoneShort' /\ file' = file
    BY <1>2, <1>5 DEF WriteNewline, Critical
  <2>2. SUFFICES ASSUME Readable(file) PROVE AckedIn(file)'
    BY <2>1 DEF Readable
  <2>3. file # <<>> /\ Len(file) \in DOMAIN file
    BY <1>5, EmptySeq, LenProperties DEF WriteNewline, UnterminatedInv
  <2>4. file[Len(file)] # Torn
        /\ file[Len(file)].entry_id = MyEntry(p).entry_id
    BY <1>5, <2>2, <2>3 DEF WriteNewline, OwnerInv, WrittenInv, Readable
  <2>5. MyEntry(p).entry_id \in EntryId
    BY <1>5, PlanTyped DEF WriteNewline, LockInv, Critical
  <2>6. QED
    BY <1>5, <2>1, <2>2, <2>3, <2>4, <2>5, AckAdded DEF WriteNewline
<1>6. ASSUME NEW p \in Proc, ShortWrite(p) PROVE AckInv'
  <2>1. AckedIn(file) /\ acked' = acked
    BY <1>6 DEF ShortWrite, OwnerInv, ReadyInv
  <2>2. \A i \in DOMAIN file : i \in DOMAIN file' /\ file'[i] = file[i]
    BY <1>6, AppendedLine DEF ShortWrite, Line
  <2>3. QED
    BY <2>1, <2>2, AckKept
<1>7. ASSUME NEW p \in Proc, WriteRest(p) PROVE AckInv'
  <2>1. AckedIn(file) /\ acked' = acked /\ file[Len(file)] = Torn
    BY <1>7 DEF WriteRest, OwnerInv, ShortInv
  <2>2. MyEntry(p) \in Line /\ file # <<>>
    BY <1>7, PlanTyped
       DEF WriteRest, LockInv, UnterminatedInv, Critical, Line
  <2>3. \A i \in DOMAIN file :
          file[i] # Torn => i \in DOMAIN file' /\ file'[i] = file[i]
    BY <1>7, <2>1, <2>2, ReplacedLine DEF WriteRest
  <2>4. QED
    BY <2>1, <2>3, AckKept
<1>8. \/ file' = file /\ acked' = acked /\ (SomeoneShort' => SomeoneShort)
      \/ \E p \in Proc : SkipTip(p) \/ WriteLine(p) \/ WriteNewline(p)
                         \/ ShortWrite(p) \/ WriteRest(p)
  BY DEF Next, Step, Fault, Terminated, vars, Acquire, ReadFails, ReadTip,
         Finish, IoFails, Crash
<1>9. QED
  BY <1>1, <1>3, <1>4, <1>5, <1>6, <1>7, <1>8

-----------------------------------------------------------------------------
LEMMA InvInit == Init => IInv
<1> SUFFICES ASSUME Init PROVE IInv
  OBVIOUS
<1>1. ControlInv
  BY ControlInit
<1>2. OwnerInv
  BY DEF Init, OwnerInv, ReadyInv, ShortInv, WrittenInv
<1>3. ChainToTheTail /\ NoDuplicateNeighbours
  BY EmptySeq DEF Init, ChainToTheTail, NoDuplicateNeighbours, Chained, Distinct
<1>4. AckInv
  BY DEF Init, AckInv, AckedIn
<1>5. QED
  BY <1>1, <1>2, <1>3, <1>4 DEF IInv

LEMMA InvStep == IInv /\ [Next]_vars => IInv'
<1> SUFFICES ASSUME IInv, [Next]_vars PROVE IInv'
  OBVIOUS
<1>1. ControlInv'
  BY ControlStep DEF IInv
<1>2. OwnerInv' /\ ChainToTheTail' /\ NoDuplicateNeighbours' /\ AckInv'
  BY OwnerStep, FileStep, AckStep
<1>3. QED
  BY <1>1, <1>2 DEF IInv

LEMMA InvHolds == Spec => []IInv
  BY InvInit, InvStep, PTL DEF Spec

(* Whichever invocations run at once and wherever they die: one unforked   *)
(* chain from the first line to the last but one, and the last line is its *)
(* next entry or does not parse.                                           *)
THEOREM ChainHolds == Spec => []ChainToTheTail
<1>1. IInv => ChainToTheTail
  BY DEF IInv
<1>2. QED
  BY <1>1, InvHolds, PTL

(* No body is ever recorded twice in a row, by one invocation or by two.   *)
THEOREM NoDuplicates == Spec => []NoDuplicateNeighbours
<1>1. IInv => NoDuplicateNeighbours
  BY DEF IInv
<1>2. QED
  BY <1>1, InvHolds, PTL

(* Whatever append() acknowledged is in the file, unless the file does not *)
(* parse at all any more.                                                  *)
THEOREM AckedDurable == Spec => []AckedUnlessUnreadable
<1>1. IInv => AckedUnlessUnreadable
  BY DEF IInv, AckInv, AckedUnlessUnreadable
<1>2. QED
  BY <1>1, InvHolds, PTL

(* A ledger that nobody is writing and that does not parse is frozen:      *)
(* append() reads it whole before it writes.                               *)
THEOREM UnreadableFrozen == Spec => UnreadableIsFinal
<1> DEFINE Frozen ==
      LeftUnreadable => LeftUnreadable' /\ UNCHANGED <<file, acked>>
<1>1. TypeOK /\ [Next]_vars => [Frozen]_vars
  <2> SUFFICES ASSUME TypeOK, [Next]_vars, LeftUnreadable
               PROVE  LeftUnreadable' /\ UNCHANGED <<file, acked>>
    OBVIOUS
  <2>1. ASSUME NEW p \in Proc, pc'[p] \notin {"write", "short", "newline"},
               \A q \in Proc : q # p => pc'[q] = pc[q],
               file' = file, acked' = acked
        PROVE  LeftUnreadable' /\ UNCHANGED <<file, acked>>
    BY <2>1 DEF LeftUnreadable, Readable
  <2>2. ASSUME UNCHANGED vars
        PROVE  LeftUnreadable' /\ UNCHANGED <<file, acked>>
    BY <2>2 DEF LeftUnreadable, Readable, vars
  <2>3. ASSUME NEW p \in Proc, Acquire(p) \/ ReadFails(p) \/ Finish(p)
                               \/ IoFails(p) \/ Crash(p)
        PROVE  LeftUnreadable' /\ UNCHANGED <<file, acked>>
    BY <2>1, <2>3
       DEF TypeOK, Acquire, ReadFails, Finish, IoFails, Crash
  <2>4. ASSUME NEW p \in Proc
        PROVE  ~SkipTip(p) /\ ~ReadTip(p) /\ ~WriteLine(p) /\ ~WriteNewline(p)
               /\ ~ShortWrite(p) /\ ~WriteRest(p)
    BY DEF LeftUnreadable, SkipTip, ReadTip, WriteLine, WriteNewline,
           ShortWrite, WriteRest
  <2>5. QED
    BY <2>2, <2>3, <2>4 DEF Next, Step, Fault, Terminated
<1>2. QED
  BY <1>1, TypeCorrect, PTL DEF Spec, UnreadableIsFinal
=============================================================================
