--------------------------- MODULE MigrationProofs ---------------------------
(***************************************************************************)
(* Theorems about Migration, for any number of processes and with or       *)
(* without crashes.                                                        *)
(***************************************************************************)
EXTENDS Migration, SequenceTheorems, TLAPS

-----------------------------------------------------------------------------
(* Lemmas about the schema. *)

(* The statements of a concatenation are those of its parts. *)
LEMMA ConcatSet ==
  ASSUME NEW S, NEW s \in Seq(S), NEW t \in Seq(S)
  PROVE  /\ s \o t \in Seq(S)
         /\ ToSet(s \o t) = ToSet(s) \cup ToSet(t)
<1>1. s \o t \in Seq(S)
  BY ConcatProperties
<1>2. ToSet(s) \cup ToSet(t) \subseteq ToSet(s \o t)
  <2>1. ASSUME NEW i \in DOMAIN s  PROVE s[i] \in ToSet(s \o t)
    BY <2>1, ConcatProperties DEF ToSet
  <2>2. ASSUME NEW i \in DOMAIN t  PROVE t[i] \in ToSet(s \o t)
    <3>1. Len(s) + i \in DOMAIN (s \o t) /\ (s \o t)[Len(s) + i] = t[i]
      BY ConcatProperties
    <3> QED
      BY <3>1 DEF ToSet
  <2> QED
    BY <2>1, <2>2 DEF ToSet
<1>3. ToSet(s \o t) \subseteq ToSet(s) \cup ToSet(t)
  <2> SUFFICES ASSUME NEW i \in DOMAIN (s \o t)
               PROVE  (s \o t)[i] \in ToSet(s) \cup ToSet(t)
    BY DEF ToSet
  <2>1. CASE i \in DOMAIN s
    BY <2>1, ConcatProperties DEF ToSet
  <2>2. CASE i \notin DOMAIN s
    <3>1. i - Len(s) \in DOMAIN t /\ (s \o t)[i] = t[i - Len(s)]
      BY <2>2, ConcatProperties
    <3> QED
      BY <3>1 DEF ToSet
  <2> QED
    BY <2>1, <2>2
<1> QED
  BY <1>1, <1>2, <1>3

(* The same for three batches. *)
LEMMA ConcatSets ==
  ASSUME NEW S, NEW s \in Seq(S), NEW t \in Seq(S), NEW u \in Seq(S)
  PROVE  /\ s \o t \o u \in Seq(S)
         /\ ToSet(s \o t \o u) = ToSet(s) \cup ToSet(t) \cup ToSet(u)
<1> DEFINE r == s \o t
<1>1. r \in Seq(S) /\ ToSet(r) = ToSet(s) \cup ToSet(t)
  BY ConcatSet
<1> HIDE DEF r
<1>2. r \o u \in Seq(S) /\ ToSet(r \o u) = ToSet(r) \cup ToSet(u)
  BY <1>1, ConcatSet
<1> QED
  BY <1>1, <1>2 DEF r

(* What the batches add; the schema is all of it. *)
LEMMA Parts ==
  /\ Objects = ToSet(SCHEMA_V1) \cup ToSet(SCHEMA_V2) \cup ToSet(SCHEMA_V3)
  /\ SCHEMA_V1 \in Seq(Objects)
  /\ SCHEMA_V2 \in Seq(Objects)
  /\ SCHEMA_V3 \in Seq(Objects)
<1> DEFINE S == {"shows", "episodes", "episodes_by_show_state", "bytes_done",
                 "bytes_total", "progress_at", "episodes_etag"}
<1>1. /\ SCHEMA_V1 \in Seq(S)
      /\ SCHEMA_V2 \in Seq(S)
      /\ SCHEMA_V3 \in Seq(S)
  BY DEF SCHEMA_V1, SCHEMA_V2, SCHEMA_V3
<1>2. Objects = ToSet(SCHEMA_V1) \cup ToSet(SCHEMA_V2) \cup ToSet(SCHEMA_V3)
  BY <1>1, ConcatSets DEF Objects, Schema
<1>3. \A s \in Seq(S) : ToSet(s) \subseteq Objects => s \in Seq(Objects)
  BY DEF ToSet
<1> QED
  BY <1>1, <1>2, <1>3

(* A database of version v with the batches it lacks has everything. *)
LEMMA BatchesComplete ==
  ASSUME NEW v \in 0..Latest
  PROVE  /\ Batches(v) \in Seq(Objects)
         /\ Released(v) \cup ToSet(Batches(v)) = Objects
         /\ Released(v) \subseteq Objects
<1>0. ToSet(<<>>) = {} /\ <<>> \in Seq(Objects)
  BY DEF ToSet
<1>1. v \in {0, 1, 2, 3}
  BY DEF Latest
<1> DEFINE one == IF v < 1 THEN SCHEMA_V1 ELSE <<>>
           two == IF v < 2 THEN SCHEMA_V2 ELSE <<>>
           three == IF v < 3 THEN SCHEMA_V3 ELSE <<>>
<1>2. one \in Seq(Objects) /\ two \in Seq(Objects) /\ three \in Seq(Objects)
  BY <1>0, Parts
<1>3. /\ Batches(v) \in Seq(Objects)
      /\ ToSet(Batches(v)) = ToSet(one) \cup ToSet(two) \cup ToSet(three)
  <2> HIDE DEF one, two, three
  <2>1. /\ one \o two \o three \in Seq(Objects)
        /\ ToSet(one \o two \o three)
             = ToSet(one) \cup ToSet(two) \cup ToSet(three)
    BY <1>2, ConcatSets
  <2>2. Batches(v) = one \o two \o three
    BY DEF Batches, one, two, three
  <2> QED
    BY <2>1, <2>2
<1>4. /\ Released(0) = {} /\ Released(1) = ToSet(SCHEMA_V1)
      /\ Released(2) = ToSet(SCHEMA_V1) \cup ToSet(SCHEMA_V2)
      /\ Released(3) = Objects
  BY <1>0, Parts, ConcatSet DEF Released, Objects
<1> QED
  BY <1>0, <1>1, <1>3, <1>4, Parts

-----------------------------------------------------------------------------
(* The inductive invariant. *)

(* The version never promises more than the file has. *)
VersionKept == Released(version) \subseteq schema

(* What a migrating process still has to run and what is there already     *)
(* make up the whole schema, whoever ran the rest.                         *)
TodoCompletes ==
  \A p \in Processes :
    proc[p].pc = "run" => Objects \subseteq schema \cup ToSet(proc[p].todo)

IInv == TypeOK /\ VersionKept /\ TodoCompletes /\ OpenIsUpToDate

LEMMA InitIInv == Init => IInv
<1> SUFFICES ASSUME Init PROVE IInv
  OBVIOUS
<1>1. version \in 0..Latest /\ schema = Released(version)
  BY DEF Init
<1>2. schema \subseteq Objects
  BY <1>1, BatchesComplete
<1>3. Closed \in [pc : {"closed", "run", "open", "error"}, todo : Seq(Objects)]
  BY DEF Closed
<1>4. TypeOK
  BY <1>1, <1>2, <1>3 DEF Init, TypeOK
<1>5. version = Latest => schema = Objects
  BY <1>1, Parts, ConcatSet DEF Released, Latest, Objects
<1> QED
  BY <1>1, <1>4, <1>5
  DEF IInv, Init, VersionKept, TodoCompletes, OpenIsUpToDate, Closed

LEMMA NextIInv == IInv /\ [Next]_vars => IInv'
<1> SUFFICES ASSUME IInv, [Next]_vars PROVE IInv'
  OBVIOUS
<1> DEFINE Proc == [pc : {"closed", "run", "open", "error"},
                    todo : Seq(Objects)]
<1>0. /\ TypeOK /\ VersionKept /\ TodoCompletes /\ OpenIsUpToDate
      /\ version \in 0..Latest /\ schema \subseteq Objects
      /\ proc \in [Processes -> Proc]
  BY DEF IInv, TypeOK
<1>1. ASSUME NEW p \in Processes, Open(p) PROVE IInv'
  <2> DEFINE new == [pc |-> "run", todo |-> Batches(version)]
  <2>1. new \in Proc /\ Objects \subseteq schema \cup ToSet(new.todo)
    BY <1>0, BatchesComplete DEF VersionKept
  <2>2. proc' = [proc EXCEPT ![p] = new] /\ UNCHANGED <<schema, version>>
    BY <1>1 DEF Open
  <2>3. new.pc = "run"
    OBVIOUS
  <2> HIDE DEF new
  <2> QED
    BY <1>0, <2>1, <2>2, <2>3
    DEF IInv, TypeOK, VersionKept, TodoCompletes, OpenIsUpToDate
<1>2. ASSUME NEW p \in Processes, Statement(p) PROVE IInv'
  <2>0. proc[p].pc = "run" /\ proc[p].todo \in Seq(Objects) /\ proc[p].todo # <<>>
    BY <1>0, <1>2 DEF Statement
  <2> DEFINE todo == proc[p].todo
  <2>1. /\ Head(todo) \in Objects /\ Tail(todo) \in Seq(Objects)
        /\ ToSet(todo) = {Head(todo)} \cup ToSet(Tail(todo))
    <3> HIDE DEF todo
    <3>1. todo \in Seq(Objects) /\ todo # <<>>
      BY <2>0 DEF todo
    <3>2. /\ Head(todo) = todo[1] /\ Len(todo) \in Nat \ {0}
          /\ DOMAIN todo = 1..Len(todo)
          /\ Tail(todo) \in Seq(Objects)
          /\ DOMAIN Tail(todo) = 1..(Len(todo) - 1)
          /\ \A i \in 1..(Len(todo) - 1) : Tail(todo)[i] = todo[i + 1]
      BY <3>1
    <3>3. \A i \in DOMAIN todo : i = 1 \/ i - 1 \in DOMAIN Tail(todo)
      BY <3>2
    <3>4. \A i \in DOMAIN todo : todo[i] \in {Head(todo)} \cup ToSet(Tail(todo))
      <4> SUFFICES ASSUME NEW i \in DOMAIN todo, i # 1
                   PROVE  todo[i] \in ToSet(Tail(todo))
        BY <3>2
      <4>1. i - 1 \in DOMAIN Tail(todo) /\ Tail(todo)[i - 1] = todo[i]
        BY <3>2
      <4> QED
        BY <4>1 DEF ToSet
    <3>5. \A i \in DOMAIN Tail(todo) : Tail(todo)[i] \in ToSet(todo)
      <4> SUFFICES ASSUME NEW i \in DOMAIN Tail(todo)
                   PROVE  Tail(todo)[i] \in ToSet(todo)
        OBVIOUS
      <4>1. i + 1 \in DOMAIN todo /\ Tail(todo)[i] = todo[i + 1]
        BY <3>2
      <4> QED
        BY <4>1 DEF ToSet
    <3>6. Head(todo) \in ToSet(todo) /\ Head(todo) \in Objects
      BY <3>1, <3>2 DEF ToSet
    <3> QED
      BY <3>2, <3>4, <3>5, <3>6 DEF ToSet
  <2>2. CASE Head(todo) \in schema
    <3> DEFINE new == [pc |-> "error", todo |-> <<>>]
    <3>1. proc' = [proc EXCEPT ![p] = new] /\ UNCHANGED <<schema, version>>
      BY <1>2, <2>2 DEF Statement
    <3>2. new \in Proc /\ new.pc = "error"
      OBVIOUS
    <3> HIDE DEF new
    <3> QED
      BY <1>0, <3>1, <3>2
      DEF IInv, TypeOK, VersionKept, TodoCompletes, OpenIsUpToDate
  <2>3. CASE Head(todo) \notin schema
    <3> DEFINE new == [proc[p] EXCEPT !.todo = Tail(todo)]
    <3>1. /\ proc' = [proc EXCEPT ![p] = new]
          /\ schema' = schema \cup {Head(todo)} /\ version' = version
      BY <1>2, <2>3 DEF Statement
    <3>2. new \in Proc /\ new.pc = "run" /\ new.todo = Tail(todo)
      BY <1>0, <2>0, <2>1
    <3>3. proc' \in [Processes -> Proc]
      BY <1>0, <3>1, <3>2
    <3>4. Objects \subseteq schema' \cup ToSet(new.todo)
      BY <1>0, <2>0, <2>1, <3>1, <3>2 DEF TodoCompletes
    <3> HIDE DEF new, todo
    <3>5. TodoCompletes'
      BY <1>0, <3>1, <3>4 DEF TodoCompletes
    <3>6. OpenIsUpToDate'
      BY <1>0, <2>1, <3>1, <3>2 DEF OpenIsUpToDate
    <3> QED
      BY <1>0, <2>1, <3>1, <3>3, <3>5, <3>6 DEF IInv, TypeOK, VersionKept
  <2> QED
    BY <2>2, <2>3
<1>3. ASSUME NEW p \in Processes, SetVersion(p) PROVE IInv'
  <2> DEFINE new == [proc[p] EXCEPT !.pc = "open"]
  <2>1. schema = Objects
    <3>1. ToSet(<<>>) = {}
      BY DEF ToSet
    <3> QED
      BY <1>0, <1>3, <3>1 DEF SetVersion, TodoCompletes
  <2>2. /\ proc' = [proc EXCEPT ![p] = new]
        /\ version' = Latest /\ schema' = schema
    BY <1>3 DEF SetVersion
  <2>3. new \in Proc /\ new.pc = "open"
    BY <1>0
  <2>4. Latest \in 0..Latest /\ Released(Latest) \subseteq Objects
    BY BatchesComplete DEF Latest
  <2> HIDE DEF new
  <2> QED
    BY <1>0, <2>1, <2>2, <2>3, <2>4
    DEF IInv, TypeOK, VersionKept, TodoCompletes, OpenIsUpToDate
<1>4. ASSUME NEW p \in Processes, Close(p) \/ Crash(p) PROVE IInv'
  <2>1. proc' = [proc EXCEPT ![p] = Closed] /\ UNCHANGED <<schema, version>>
    BY <1>4 DEF Close, Crash
  <2>2. Closed \in Proc /\ Closed.pc = "closed"
    BY DEF Closed
  <2> QED
    BY <1>0, <2>1, <2>2
    DEF IInv, TypeOK, VersionKept, TodoCompletes, OpenIsUpToDate
<1>5. CASE UNCHANGED vars
  BY <1>0, <1>5 DEF vars, IInv, TypeOK, VersionKept, TodoCompletes,
                    OpenIsUpToDate
<1> QED
  BY <1>1, <1>2, <1>3, <1>4, <1>5 DEF Next

-----------------------------------------------------------------------------
(* Every state of every behaviour has its type: open never runs anything   *)
(* but statements of the schema.                                           *)
THEOREM TypeCorrect == Spec => []TypeOK
<1>1. IInv => TypeOK
  BY DEF IInv
<1> QED
  BY InitIInv, NextIInv, <1>1, PTL DEF Spec

(* However many processes migrate one database at once, and wherever they  *)
(* are killed, one that has it open finds the whole schema                 *)
(* (Storage::open, migrate).                                               *)
THEOREM OpenFindsSchema == Spec => []OpenIsUpToDate
<1>1. IInv => OpenIsUpToDate
  BY DEF IInv
<1> QED
  BY InitIInv, NextIInv, <1>1, PTL DEF Spec

=============================================================================
