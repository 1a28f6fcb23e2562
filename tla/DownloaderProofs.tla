-------------------------- MODULE DownloaderProofs --------------------------
(***************************************************************************)
(* Theorems about Downloader, for any number of calls, destinations,       *)
(* permits, reloads and retries, and bodies of any length.                 *)
(***************************************************************************)
EXTENDS Downloader, FiniteSetTheorems, TLAPS

-----------------------------------------------------------------------------
(* The inductive invariant. *)

(* No engine gives out more permits than it has, also one that no call has *)
(* taken yet: the next call may.                                           *)
EnginesRespected ==
  \A e \in Engine : Cardinality(Holders(e)) <= e.permits

(* An attempt on its way to the rename has passed the length check, and    *)
(* neither a cancellation nor another call undoes that.                    *)
Verified ==
  \A f \in Fetches : call[f].pc \in {"persist", "detached"} => ~Truncated(f)

IInv == TypeOK /\ EnginesRespected /\ Verified /\ WholeFiles /\ TempsOwned

-----------------------------------------------------------------------------
(* Lemmas. *)

(* Permit holders are finitely many, and fewer when some return. *)
LEMMA HoldersFinite ==
  ASSUME NEW e
  PROVE  /\ IsFiniteSet(Holders(e))
         /\ Cardinality(Holders(e)) \in Nat
<1>1. Holders(e) \subseteq Fetches
  BY DEF Holders
<1> QED
  BY <1>1, DownloaderAssumption, FS_Subset, FS_CardinalityType

LEMMA FewerHolders ==
  ASSUME EnginesRespected, \A e \in Engine : Holders(e)' \subseteq Holders(e)
  PROVE  EnginesRespected'
<1> SUFFICES ASSUME NEW e \in Engine
             PROVE  Cardinality(Holders(e)') <= e.permits
  BY DEF EnginesRespected, Engine
<1>1. /\ Cardinality(Holders(e)') \in Nat
      /\ Cardinality(Holders(e)') <= Cardinality(Holders(e))
  BY HoldersFinite, FS_Subset, FS_CardinalityType
<1>2. e.permits \in Nat
  BY DownloaderAssumption DEF Engine
<1> QED
  BY <1>1, <1>2, HoldersFinite DEF EnginesRespected

(* A call that changes to a typed record that holds no new permit. *)
LEMMA NoNewHolder ==
  ASSUME TypeOK, NEW f \in Fetches, NEW c \in Call,
         call' = [call EXCEPT ![f] = c],
         \/ c.pc \notin Holding
         \/ call[f].pc \in Holding /\ c.engine = call[f].engine
  PROVE  /\ call' \in [Fetches -> Call]
         /\ \A e \in Engine : Holders(e)' \subseteq Holders(e)
<1>1. call \in [Fetches -> Call]
  BY DEF TypeOK
<1>2. call' \in [Fetches -> Call]
  BY <1>1
<1>3. ASSUME NEW e \in Engine, NEW g \in Fetches,
             call'[g].engine = e, call'[g].pc \in Holding
      PROVE  call[g].engine = e /\ call[g].pc \in Holding
  <2>1. CASE g = f
    BY <1>1, <1>3, <2>1
  <2>2. CASE g # f
    BY <1>1, <1>3, <2>2
  <2> QED
    BY <2>1, <2>2
<1> QED
  BY <1>2, <1>3 DEF Holders

(* What the end of an attempt makes of its call. *)
LEMMA AttemptedRecord ==
  ASSUME TypeOK, NEW f \in Fetches, NEW pc \in PCs,
         NEW tries \in 0..MaxTimes + 1, Attempted(f, pc, tries)
  PROVE  \E c \in Call : /\ call' = [call EXCEPT ![f] = c]
                         /\ c.pc = pc
                         /\ c.engine = call[f].engine
<1>1. call[f] \in Call /\ None \in Lengths /\ 0 \in 0..Size
  BY DownloaderAssumption DEF TypeOK, Lengths
<1> DEFINE c == [call[f] EXCEPT !.pc = pc, !.tries = tries,
                                !.expected = None, !.written = 0]
<1>2. call' = [call EXCEPT ![f] = c]
  BY DEF Attempted
<1>3. c \in Call /\ c.pc = pc /\ c.engine = call[f].engine
  BY <1>1 DEF Call
<1> HIDE DEF c
<1> QED
  BY <1>2, <1>3

LEMMA FailsRecord ==
  ASSUME TypeOK, NEW f \in Fetches, NEW transient \in BOOLEAN,
         Fails(f, transient)
  PROVE  \E c \in Call : /\ call' = [call EXCEPT ![f] = c]
                         /\ c.pc \in {"backoff", "err"}
                         /\ c.engine = call[f].engine
<1>1. CASE transient /\ call[f].tries <= MaxTimes
  <2>1. Attempted(f, "backoff", call[f].tries + 1)
    BY <1>1 DEF Fails
  <2>2. call[f].tries + 1 \in 0..MaxTimes + 1
    BY <1>1, DownloaderAssumption DEF TypeOK, Call
  <2>3. "backoff" \in PCs
    BY DEF PCs
  <2> QED
    BY <2>1, <2>2, <2>3, AttemptedRecord
<1>2. CASE ~(transient /\ call[f].tries <= MaxTimes)
  <2>1. Attempted(f, "err", 0)
    BY <1>2 DEF Fails
  <2>2. 0 \in 0..MaxTimes + 1 /\ "err" \in PCs
    BY DownloaderAssumption DEF PCs
  <2> QED
    BY <2>1, <2>2, AttemptedRecord
<1> QED
  BY <1>1, <1>2

-----------------------------------------------------------------------------
(* The steps. *)

LEMMA InitIInv == Init => IInv
<1> SUFFICES ASSUME Init PROVE IInv
  OBVIOUS
<1>1. engine \in Engine
  BY DownloaderAssumption DEF Init, Engine
<1>2. \A f \in Fetches : call[f].pc = "idle"
  BY DEF Init
<1>3. TypeOK
  BY <1>1, DownloaderAssumption DEF Init, TypeOK, Call, PCs, Lengths
<1>4. EnginesRespected
  <2> SUFFICES ASSUME NEW e \in Engine
               PROVE  Cardinality(Holders(e)) <= e.permits
    BY DEF EnginesRespected
  <2>1. Holders(e) = {}
    BY <1>2 DEF Holders, Holding
  <2>2. Cardinality(Holders(e)) = 0
    BY <2>1, FS_EmptySet
  <2>3. e.permits \in Nat
    BY DownloaderAssumption DEF Engine
  <2> QED
    BY <2>2, <2>3
<1> QED
  BY <1>2, <1>3, <1>4 DEF IInv, Init, Verified, WholeFiles, TempsOwned

(* A step of a call that leaves the destination alone: enough to know the  *)
(* call's new record and what became of its temporary file.                *)
LEMMA CallStep ==
  ASSUME IInv, NEW f \in Fetches, NEW c \in Call,
         call' = [call EXCEPT ![f] = c], UNCHANGED <<engine, disk>>,
         \/ c.pc \notin Holding
         \/ call[f].pc \in Holding /\ c.engine = call[f].engine,
         c.pc \in {"persist", "detached"} =>
           c.expected \in {None, c.written},
         temp' \in SUBSET (temp \cup {f}),
         f \in temp' => c.pc \in {"body", "persist", "detached"},
         temp \subseteq temp' \cup {f}
  PROVE  IInv'
<1>0. /\ TypeOK /\ EnginesRespected /\ Verified /\ WholeFiles /\ TempsOwned
      /\ call \in [Fetches -> Call]
  BY DEF IInv, TypeOK
<1>1. /\ call' \in [Fetches -> Call]
      /\ \A e \in Engine : Holders(e)' \subseteq Holders(e)
  BY <1>0, NoNewHolder
<1>2. TypeOK'
  BY <1>0, <1>1 DEF TypeOK
<1>3. EnginesRespected'
  BY <1>0, <1>1, FewerHolders
<1>4. Verified'
  <2> SUFFICES ASSUME NEW g \in Fetches,
                      call'[g].pc \in {"persist", "detached"}
               PROVE  call'[g].expected \in {None, call'[g].written}
    BY DEF Verified, Truncated
  <2>1. CASE g = f
    BY <1>0, <2>1
  <2>2. CASE g # f
    BY <1>0, <2>2 DEF Verified, Truncated
  <2> QED
    BY <2>1, <2>2
<1>5. WholeFiles'
  BY <1>0 DEF WholeFiles
<1>6. TempsOwned'
  <2> SUFFICES ASSUME NEW g \in temp'
               PROVE  call'[g].pc \in {"body", "persist", "detached"}
    BY DEF TempsOwned
  <2>1. CASE g = f
    BY <1>0, <2>1
  <2>2. CASE g # f
    BY <1>0, <2>2 DEF TempsOwned, TypeOK
  <2> QED
    BY <2>1, <2>2
<1> QED
  BY <1>2, <1>3, <1>4, <1>5, <1>6 DEF IInv

(* The rename: what it puts in place has passed the length check. *)
LEMMA PersistStep ==
  ASSUME IInv, NEW f \in Fetches, NEW pc \in {"ok", "idle"},
         call[f].pc \in {"persist", "detached"}, Persisted(f),
         Attempted(f, pc, 0), UNCHANGED engine
  PROVE  IInv'
<1>0. /\ TypeOK /\ EnginesRespected /\ Verified /\ WholeFiles /\ TempsOwned
      /\ call \in [Fetches -> Call] /\ call[f] \in Call /\ Dest[f] \in Dests
  BY DownloaderAssumption DEF IInv, TypeOK
<1>a. 0 \in 0..MaxTimes + 1 /\ pc \in PCs
  BY DownloaderAssumption DEF PCs
<1>1. PICK c \in Call : call' = [call EXCEPT ![f] = c] /\ c.pc = pc
  BY <1>0, <1>a, AttemptedRecord
<1> DEFINE file == [len |-> call[f].written, announced |-> call[f].expected]
<1>2. /\ call' = [call EXCEPT ![f] = c]
      /\ disk' = [disk EXCEPT ![Dest[f]] = file]
      /\ temp' = temp \ {f}
  BY <1>1 DEF Persisted
<1>3. file \in Contents /\ file.announced \in {file.len, None}
  BY <1>0 DEF Contents, Call, Verified, Truncated
<1> HIDE DEF file
<1>4. c.pc \notin Holding
  BY <1>1 DEF Holding
<1>5. /\ call' \in [Fetches -> Call]
      /\ \A e \in Engine : Holders(e)' \subseteq Holders(e)
  BY <1>0, <1>1, <1>2, <1>4, NoNewHolder
<1>6. TypeOK'
  BY <1>0, <1>2, <1>3, <1>5 DEF TypeOK
<1>7. EnginesRespected'
  BY <1>0, <1>5, FewerHolders
<1>8. Verified'
  BY <1>0, <1>1, <1>2 DEF Verified, Truncated
<1>9. WholeFiles'
  BY <1>0, <1>2, <1>3 DEF WholeFiles, TypeOK
<1>10. TempsOwned'
  BY <1>0, <1>2 DEF TempsOwned, TypeOK
<1> QED
  BY <1>6, <1>7, <1>8, <1>9, <1>10 DEF IInv

(* Library::reload: a new engine has given out nothing. *)
LEMMA ReloadStep ==
  ASSUME IInv, Reload
  PROVE  IInv'
<1>1. engine' \in Engine
  BY DownloaderAssumption DEF IInv, TypeOK, Reload, Engine
<1>2. \A e \in Engine : Holders(e)' = Holders(e)
  BY DEF Reload, Holders
<1>3. EnginesRespected'
  BY <1>2, FewerHolders DEF IInv
<1> QED
  BY <1>1, <1>3
  DEF IInv, Reload, TypeOK, Verified, Truncated, WholeFiles, TempsOwned

(* A permit is given out only while there is one. *)
LEMMA AcquireStep ==
  ASSUME IInv, NEW f \in Fetches, Acquire(f)
  PROVE  IInv'
<1>0. /\ TypeOK /\ EnginesRespected /\ Verified /\ WholeFiles /\ TempsOwned
      /\ call \in [Fetches -> Call] /\ call[f] \in Call
      /\ call[f].pc = "acquire"
  BY DEF IInv, TypeOK, Acquire, At
<1> DEFINE c == [call[f] EXCEPT !.pc = "send", !.tries = 1]
<1>1. call' = [call EXCEPT ![f] = c] /\ UNCHANGED <<engine, temp, disk>>
  BY DEF Acquire
<1>2. c \in Call /\ c.pc = "send" /\ c.engine = call[f].engine
  <2>1. 1 \in 0..MaxTimes + 1
    BY DownloaderAssumption
  <2> QED
    BY <1>0, <2>1 DEF Call, PCs
<1> HIDE DEF c
<1>3. TypeOK'
  BY <1>0, <1>1, <1>2 DEF TypeOK
<1>4. EnginesRespected'
  <2> SUFFICES ASSUME NEW e \in Engine
               PROVE  Cardinality(Holders(e)') <= e.permits
    BY DEF EnginesRespected
  <2>0. e.permits \in Nat /\ IsFiniteSet(Holders(e))
        /\ Cardinality(Holders(e)) \in Nat
    BY HoldersFinite, DownloaderAssumption DEF Engine
  <2>1. CASE e = call[f].engine
    <3>1. Holders(e)' = Holders(e) \cup {f}
      BY <1>0, <1>1, <1>2, <2>1 DEF Holders, Holding
    <3>2. f \notin Holders(e)
      BY <1>0 DEF Holders, Holding
    <3>3. Cardinality(Holders(e) \cup {f}) = Cardinality(Holders(e)) + 1
      BY <2>0, <3>2, FS_AddElement
    <3>4. Cardinality(Holders(e)) < e.permits
      BY <2>1 DEF Acquire
    <3> QED
      BY <2>0, <3>1, <3>3, <3>4
  <2>2. CASE e # call[f].engine
    <3>1. Holders(e)' = Holders(e)
      BY <1>0, <1>1, <1>2, <2>2 DEF Holders, Holding
    <3> QED
      BY <1>0, <3>1 DEF EnginesRespected
  <2> QED
    BY <2>1, <2>2
<1>5. Verified'
  BY <1>0, <1>1, <1>2 DEF Verified, Truncated
<1>6. WholeFiles'
  BY <1>0, <1>1 DEF WholeFiles
<1>7. TempsOwned'
  <2>1. f \notin temp
    BY <1>0 DEF TempsOwned
  <2> QED
    BY <1>0, <1>1, <2>1 DEF TempsOwned, TypeOK
<1> QED
  BY <1>3, <1>4, <1>5, <1>6, <1>7 DEF IInv

(* An attempt that fails drops its temporary file. *)
LEMMA FailsStep ==
  ASSUME IInv, NEW f \in Fetches, NEW transient \in BOOLEAN,
         call[f].pc \in Holding, Fails(f, transient)
  PROVE  IInv'
<1>1. TypeOK
  BY DEF IInv
<1>2. PICK c \in Call : /\ call' = [call EXCEPT ![f] = c]
                        /\ c.pc \in {"backoff", "err"}
                        /\ c.engine = call[f].engine
  BY <1>1, FailsRecord
<1>3. temp' = temp \ {f} /\ UNCHANGED <<engine, disk>>
  BY DEF Fails
<1> QED
  BY <1>2, <1>3, CallStep

LEMMA NextIInv == IInv /\ [Next]_vars => IInv'
<1> SUFFICES ASSUME IInv, [Next]_vars PROVE IInv'
  OBVIOUS
<1>0. TypeOK /\ TempsOwned /\ \A f \in Fetches : call[f] \in Call
  BY DEF IInv, TypeOK
<1>idle. 0 \in 0..MaxTimes + 1 /\ "idle" \in PCs
  BY DownloaderAssumption DEF PCs
<1>1. CASE Reload
  BY <1>1, ReloadStep
<1>2. ASSUME NEW f \in Fetches, Start(f) PROVE IInv'
  <2>0. PICK e \in {engine, call[f].engine} :
          call' = [call EXCEPT ![f] = [pc |-> "acquire", engine |-> e,
                                       tries |-> 0, expected |-> None,
                                       written |-> 0]]
    BY <1>2 DEF Start
  <2> DEFINE c == [pc |-> "acquire", engine |-> e, tries |-> 0,
                   expected |-> None, written |-> 0]
  <2>1. c \in Call /\ c.pc = "acquire"
    <3>1. e \in Engine
      BY <1>0 DEF TypeOK, Call
    <3> QED
      BY <3>1, DownloaderAssumption DEF Call, PCs, Lengths
  <2>2. call' = [call EXCEPT ![f] = c] /\ UNCHANGED <<engine, temp, disk>>
    BY <1>2, <2>0 DEF Start
  <2>3. f \notin temp
    BY <1>0, <1>2 DEF Start, TempsOwned
  <2> HIDE DEF c
  <2> QED
    BY <2>1, <2>2, <2>3, CallStep DEF Holding
<1>3. ASSUME NEW f \in Fetches, Acquire(f) PROVE IInv'
  BY <1>3, AcquireStep
<1>4. ASSUME NEW f \in Fetches, Answered(f) PROVE IInv'
  <2>1. PICK n \in Lengths :
          call' = [call EXCEPT ![f] =
                     [call[f] EXCEPT !.pc = "open", !.expected = n]]
    BY <1>4 DEF Answered
  <2> DEFINE c == [call[f] EXCEPT !.pc = "open", !.expected = n]
  <2>2. c \in Call /\ c.pc = "open" /\ c.engine = call[f].engine
    BY <1>0 DEF Call, PCs
  <2>3. /\ call[f].pc = "send" /\ f \notin temp
        /\ UNCHANGED <<engine, temp, disk>>
    BY <1>0, <1>4 DEF Answered, At, TempsOwned
  <2> HIDE DEF c
  <2> QED
    BY <2>1, <2>2, <2>3, CallStep DEF Holding, c
<1>5. ASSUME NEW f \in Fetches, OpenTemp(f) PROVE IInv'
  <2> DEFINE c == [call[f] EXCEPT !.pc = "body", !.written = 0]
  <2>1. c \in Call /\ c.pc = "body" /\ c.engine = call[f].engine
    <3>1. 0 \in 0..Size
      BY DownloaderAssumption
    <3> QED
      BY <1>0, <3>1 DEF Call, PCs
  <2>2. /\ call' = [call EXCEPT ![f] = c] /\ call[f].pc = "open"
        /\ temp' = temp \cup {f} /\ UNCHANGED <<engine, disk>>
    BY <1>5 DEF OpenTemp, At
  <2> HIDE DEF c
  <2> QED
    BY <2>1, <2>2, CallStep DEF Holding
<1>6. ASSUME NEW f \in Fetches, Chunk(f) PROVE IInv'
  <2> DEFINE c == [call[f] EXCEPT !.written = call[f].written + 1]
  <2>1. call[f].pc = "body" /\ call[f].written + 1 \in 0..Size
    BY <1>0, <1>6, DownloaderAssumption DEF Chunk, At, Call
  <2>2. c \in Call /\ c.pc = "body" /\ c.engine = call[f].engine
    BY <1>0, <2>1 DEF Call
  <2>3. call' = [call EXCEPT ![f] = c] /\ UNCHANGED <<engine, temp, disk>>
    BY <1>6 DEF Chunk
  <2> HIDE DEF c
  <2> QED
    BY <2>1, <2>2, <2>3, CallStep DEF Holding
<1>7. ASSUME NEW f \in Fetches, BodyEnds(f) PROVE IInv'
  <2> DEFINE c == [call[f] EXCEPT !.pc = "persist"]
  <2>1. /\ c \in Call /\ c.pc = "persist" /\ c.engine = call[f].engine
        /\ c.expected = call[f].expected /\ c.written = call[f].written
    BY <1>0 DEF Call, PCs
  <2>2. /\ call' = [call EXCEPT ![f] = c] /\ call[f].pc = "body"
        /\ call[f].expected \in {None, call[f].written}
        /\ UNCHANGED <<engine, temp, disk>>
    BY <1>7 DEF BodyEnds, At, Goto, Truncated
  <2> HIDE DEF c
  <2> QED
    BY <2>1, <2>2, CallStep DEF Holding
<1>8. ASSUME NEW f \in Fetches, Persist(f) PROVE IInv'
  BY <1>8, PersistStep DEF Persist, At
<1>9. ASSUME NEW f \in Fetches,
             \/ NetworkFails(f) \/ StatusFails(f)
             \/ LengthFails(f) \/ DiskFails(f)
      PROVE  IInv'
  <2>1. PICK transient \in BOOLEAN : Fails(f, transient)
    BY <1>9 DEF NetworkFails, StatusFails, LengthFails, DiskFails
  <2>2. call[f].pc \in Holding
    BY <1>9
    DEF NetworkFails, StatusFails, LengthFails, DiskFails, At, Holding
  <2> QED
    BY <2>1, <2>2, FailsStep
<1>10. ASSUME NEW f \in Fetches, Again(f) PROVE IInv'
  <2> DEFINE c == [call[f] EXCEPT !.pc = "send"]
  <2>1. c \in Call /\ c.pc = "send" /\ c.engine = call[f].engine
    BY <1>0 DEF Call, PCs
  <2>2. /\ call' = [call EXCEPT ![f] = c] /\ call[f].pc = "backoff"
        /\ f \notin temp /\ UNCHANGED <<engine, temp, disk>>
    BY <1>0, <1>10 DEF Again, At, Goto, TempsOwned
  <2> HIDE DEF c
  <2> QED
    BY <2>1, <2>2, CallStep DEF Holding
<1>11. ASSUME NEW f \in Fetches, Cancel(f), call[f].pc = "persist"
       PROVE  IInv'
  <2> DEFINE c == [call[f] EXCEPT !.pc = "detached"]
  <2>1. /\ c \in Call /\ c.pc = "detached"
        /\ c.expected = call[f].expected /\ c.written = call[f].written
    BY <1>0 DEF Call, PCs
  <2>2. call' = [call EXCEPT ![f] = c] /\ UNCHANGED <<engine, temp, disk>>
    BY <1>11 DEF Cancel, Goto, At
  <2>3. call[f].expected \in {None, call[f].written}
    BY <1>11 DEF IInv, Verified, Truncated
  <2> HIDE DEF c
  <2> QED
    BY <2>1, <2>2, <2>3, CallStep DEF Holding
<1>12. ASSUME NEW f \in Fetches, Cancel(f), call[f].pc # "persist"
       PROVE  IInv'
  <2>1. PICK c \in Call : call' = [call EXCEPT ![f] = c] /\ c.pc = "idle"
    BY <1>0, <1>12, <1>idle, AttemptedRecord DEF Cancel, At
  <2>2. temp' = temp \ {f} /\ UNCHANGED <<engine, disk>>
    BY <1>12 DEF Cancel, At
  <2> QED
    BY <2>1, <2>2, CallStep DEF Holding
<1>13. ASSUME NEW f \in Fetches, Detached(f) PROVE IInv'
  <2>1. CASE Persisted(f)
    BY <1>13, <2>1, PersistStep DEF Detached, At
  <2>2. CASE temp' = temp \ {f} /\ UNCHANGED disk
    <3>1. PICK c \in Call : call' = [call EXCEPT ![f] = c] /\ c.pc = "idle"
      BY <1>0, <1>13, <1>idle, AttemptedRecord DEF Detached
    <3>2. UNCHANGED engine
      BY <1>13 DEF Detached
    <3> QED
      BY <2>2, <3>1, <3>2, CallStep DEF Holding
  <2> QED
    BY <1>13, <2>1, <2>2 DEF Detached
<1>14. CASE UNCHANGED vars
  BY <1>14 DEF vars, IInv, TypeOK, EnginesRespected, Holders, Verified,
               Truncated, WholeFiles, TempsOwned
<1> QED
  BY <1>1, <1>2, <1>3, <1>4, <1>5, <1>6, <1>7, <1>8, <1>9, <1>10, <1>11,
     <1>12, <1>13, <1>14 DEF Next, Work

-----------------------------------------------------------------------------
(* The inductive invariant holds throughout. *)
THEOREM Inductive == Spec => []IInv
  BY InitIInv, NextIInv, PTL DEF Spec

(* Every state has its type: no call makes more than MaxTimes + 1          *)
(* attempts, however its attempts fail.                                    *)
THEOREM TypeCorrect == Spec => []TypeOK
<1>1. IInv => TypeOK
  BY DEF IInv
<1> QED
  BY Inductive, <1>1, PTL

(* No engine ever runs more transfers than it has permits, engines that a  *)
(* reload has replaced included (Downloader::fetch).                       *)
THEOREM Permits == Spec => []PermitsRespected
<1>1. IInv => PermitsRespected
  BY DEF IInv, TypeOK, Call, EnginesRespected, PermitsRespected
<1> QED
  BY Inductive, <1>1, PTL

(* A truncated transfer never becomes a file at its destination, whatever  *)
(* fails, is cancelled or writes there at the same time                    *)
(* (Downloader::attempt).                                                  *)
THEOREM Whole == Spec => []WholeFiles
<1>1. IInv => WholeFiles
  BY DEF IInv
<1> QED
  BY Inductive, <1>1, PTL

(* No failure, retry or cancellation leaves a temporary file that nobody   *)
(* owns (NamedTempFile in Downloader::attempt).                            *)
THEOREM Temps == Spec => []TempsOwned
<1>1. IInv => TempsOwned
  BY DEF IInv
<1> QED
  BY Inductive, <1>1, PTL

=============================================================================
