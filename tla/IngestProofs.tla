----------------------------- MODULE IngestProofs -----------------------------
(***************************************************************************)
(* Proofs about the ingestion of SSTables, for any files, levels and calls *)
(* and whatever fails: types, the files and the entries it installs, and   *)
(* what a Get answers while a migration runs.                              *)
(***************************************************************************)
EXTENDS IngestInvariants, FiniteSetTheorems, WellFoundedInduction, TLAPS

-------------------------------------------------------------------------------
(* The operators of the model *)

\* A non-empty set of numbers has a least one,
LEMMA MinOfNaturals ==
  ASSUME NEW S, S \subseteq Nat, S # {}
  PROVE  Min(S) \in S /\ \A y \in S : Min(S) <= y
<1>1. PICK x \in S : \A y \in S : ~ (<<y, x>> \in OpToRel(<, Nat))
      BY WFMin, NatLessThanWellFounded
<1>2. ASSUME NEW y \in S
      PROVE  ~ (y < x)
  <2>1. x \in Nat /\ y \in Nat
        OBVIOUS
  <2>2. y < x => <<y, x>> \in OpToRel(<, Nat)
        BY <2>1 DEF OpToRel
  <2> QED
        BY <1>1, <2>2
<1>3. \A y \in S : x <= y
      BY <1>2
<1> QED
  BY <1>3 DEF Min

\* and a non-empty set of numbers with a bound a greatest one.
LEMMA MaxOfNaturals ==
  ASSUME NEW S, S \subseteq Nat, S # {}, NEW bound \in Nat, \A y \in S : y <= bound
  PROVE  Max(S) \in S /\ \A y \in S : Max(S) >= y
<1> DEFINE Above == {n \in Nat : \A y \in S : y <= n}
           Least == Min(Above)
<1>1. Least \in Above /\ \A n \in Above : Least <= n
      BY MinOfNaturals
<1> HIDE DEF Least
<1>2. Least \in Nat /\ \A y \in S : y <= Least
      BY <1>1
<1>3. Least \in S
  <2> SUFFICES ASSUME Least \notin S
               PROVE  FALSE
      OBVIOUS
  <2>1. \A y \in S : y <= Least - 1
        BY <1>2
  <2>2. PICK z \in S : z <= Least
        BY <1>2
  <2>3. Least - 1 \in Nat
        BY <1>2, <2>1, <2>2
  <2>4. Least - 1 \in Above
        BY <2>1, <2>3
  <2> QED
        BY <1>1, <1>2, <2>4
<1>4. \A y \in S : Least >= y
      BY <1>2
<1> QED
  BY <1>3, <1>4 DEF Max

\* The place of a file's directory is a number.
LEMMA PathIdType == \A n \in Files : PathId(n) \in Nat
<1> SUFFICES ASSUME NEW n \in Files
             PROVE  PathId(n) \in Nat
    OBVIOUS
<1> DEFINE before == {p \in Paths : \A q \in 0 .. p : CfPaths[q + 1] # ExtFile[n].dir}
<1>1. IsFiniteSet(Paths)
      BY IngestAssumption, FS_Interval DEF Paths
<1>2. IsFiniteSet(before)
      BY <1>1, FS_Subset
<1> QED
  BY <1>2, FS_CardinalityType DEF PathId

-------------------------------------------------------------------------------
(* Types *)

TypesInv == JobTypes /\ JobClaims

\* The call being made.
LEMMA CallType ==
  ASSUME TypesInv, job.pc \notin {"idle", "exited"}
  PROVE  /\ Call \in IngestCalls /\ Call.files \in Seq(Files)
         /\ Call.external_level \in Levels /\ Call.snapshot_consistency \in BOOLEAN
         /\ at \in 1 .. Len(calls) /\ Len(calls) \in Nat
<1>1. calls \in Seq(IngestCalls)
      BY IngestAssumption DEF TypesInv, JobTypes, IngestTypeOK
<1>2. at \in DOMAIN calls
      BY DEF TypesInv, JobClaims
<1>3. Call \in IngestCalls
      BY <1>1, <1>2 DEF Call
<1> QED
  BY <1>1, <1>2, <1>3 DEF IngestCalls

LEMMA JobType ==
  ASSUME TypesInv
  PROVE  /\ job \in Jobs /\ job.infos \in Seq(Infos) /\ Len(job.infos) \in Nat
         /\ DOMAIN job.infos = 1 .. Len(job.infos)
         /\ \A j \in DOMAIN job.infos : job.infos[j] \in Infos
         /\ job.infos # <<>> => job.i \in 1 .. Len(job.infos) /\ Info \in Infos
<1>1. job \in Jobs /\ job.infos \in Seq(Infos)
      BY DEF TypesInv, JobTypes, Jobs
<1>2. job.infos # <<>> => job.i \in DOMAIN job.infos
      BY DEF TypesInv, JobTypes, IngestTypeOK
<1> QED
  BY <1>1, <1>2 DEF Info

LEMMA TypesInit == IngestInit => TypesInv
<1> SUFFICES ASSUME IngestInit
             PROVE  TypesInv
    OBVIOUS
<1>1. calls \in Seq(IngestCalls)
      BY IngestAssumption DEF IngestInit
<1>2. 1 \in 1 .. Len(calls) + 1
      BY <1>1
<1>3. <<>> \in Seq(Infos)
      OBVIOUS
<1>4. NoJob \in Jobs
      BY <1>3 DEF NoJob, Jobs, JobStates
<1>5. IngestTypeOK
      BY <1>2 DEF IngestInit, IngestTypeOK, NoJob
<1>6. JobTypes
      BY <1>4, <1>5 DEF IngestInit, JobTypes
<1>7. JobClaims
      BY DEF IngestInit, JobClaims, InfosOfCall, NoJob, AllLinked, Logged
<1> QED
  BY <1>6, <1>7 DEF TypesInv

\* A step that leaves the infos of the job, and its place in them, alone.
PlaceKept == job'.infos = job.infos /\ job'.i = job.i

\* The types of the levels.
LevelTypes ==
  /\ DOMAIN levels = Levels
  /\ \A l \in Levels : \A m \in levels[l] :
       /\ m.num \in Nat /\ m.path \in Nat /\ m.from \in Files \cup {Workload}
       /\ m.seq \in [DOMAIN m.seq -> Nat] /\ DOMAIN m.seq \subseteq Keys

LEMMA TypesParts ==
  ASSUME TypesInv
  PROVE  /\ LevelTypes /\ memtable \in [Keys -> Nat]
         /\ last_sequence \in Nat /\ next_file_number \in Nat
         /\ external \subseteq Files
         /\ internal \subseteq [num : Nat, of : Files, state : {"whole", "partial", "undeleted"}]
BY DEF TypesInv, JobTypes, IngestTypeOK, LevelTypes

\* What remains to be shown of a step that stays in its call.
LEMMA TypesStay ==
  ASSUME TypesInv, UNCHANGED <<calls, at>>, LevelTypes', memtable' \in [Keys -> Nat],
         last_sequence' \in Nat, next_file_number' \in Nat, external' \subseteq Files,
         internal' \subseteq [num : Nat, of : Files, state : {"whole", "partial", "undeleted"}],
         job' \in Jobs, job'.infos # <<>> => job'.i \in DOMAIN job'.infos
  PROVE  JobTypes'
<1>1. \A f \in internal' : f.num \in Nat /\ f.of \in Files /\ f.state \in {"whole", "partial", "undeleted"}
      OBVIOUS
<1>2. job'.pc \in JobStates
      BY DEF Jobs
<1>3. at' \in 1 .. Len(calls') + 1 /\ calls' \in CallSets
      BY DEF TypesInv, JobTypes, IngestTypeOK
<1>4. IngestTypeOK'
      BY <1>1, <1>2, <1>3 DEF IngestTypeOK, LevelTypes, JobStates
<1> QED
  BY <1>4 DEF JobTypes, LevelTypes

\* A step of the job that does no more than move on keeps the types.
LEMMA TypesMove ==
  ASSUME TypesInv, UNCHANGED <<calls, at, next_file_number, external>>, LevelTypes',
         memtable' \in [Keys -> Nat], last_sequence' \in Nat,
         internal' \subseteq [num : Nat, of : Files, state : {"whole", "partial", "undeleted"}],
         job' \in Jobs, PlaceKept
  PROVE  JobTypes'
<1>1. job'.infos # <<>> => job'.i \in DOMAIN job'.infos
      BY DEF TypesInv, JobTypes, IngestTypeOK, PlaceKept
<1> QED
  BY <1>1, TypesParts, TypesStay

LEMMA MemtableFlushed ==
  ASSUME TypesInv, FlushMemtable
  PROVE  LevelTypes' /\ memtable' \in [Keys -> Nat] /\ next_file_number' \in Nat
<1> DEFINE held == {k \in Keys : memtable[k] > 0}
           file == [num |-> next_file_number, path |-> 0, from |-> Workload,
                    seq |-> [k \in held |-> memtable[k]]]
<1>1. LevelTypes /\ memtable \in [Keys -> Nat] /\ next_file_number \in Nat
      BY TypesParts
<1>2. /\ levels' = [levels EXCEPT ![0] = @ \cup {file}]
      /\ memtable' = [k \in Keys |-> 0] /\ next_file_number' = next_file_number + 1
      BY DEF FlushMemtable
<1>3. DOMAIN file.seq = held /\ file.seq \in [held -> Nat] /\ held \subseteq Keys
      BY <1>1
<1>4. file.num \in Nat /\ file.path \in Nat /\ file.from = Workload
      BY <1>1
<1> HIDE DEF file, held
<1>5. DOMAIN levels = Levels
      BY <1>1 DEF LevelTypes
<1>6. \A l \in Levels : \A m \in levels'[l] : m \in levels[l] \/ m = file
      BY <1>2, <1>5
<1>7. DOMAIN levels' = Levels
      BY <1>2, <1>5
<1>8. LevelTypes'
      BY <1>1, <1>3, <1>4, <1>6, <1>7 DEF LevelTypes
<1> QED
  BY <1>1, <1>2, <1>8

LEMMA InsideDeleted ==
  ASSUME TypesInv, DeleteInside
  PROVE  /\ internal' \subseteq [num : Nat, of : Files, state : {"whole", "partial", "undeleted"}]
         /\ \A f \in internal' : f.state = "whole" =>
              f \in internal /\ \A j \in DOMAIN job.infos : job.infos[j].inside => job.infos[j].num # f.num
         /\ \A f \in internal : (\A j \in DOMAIN job.infos : job.infos[j].num # f.num) => f \in internal'
<1> DEFINE mine == {f \in internal : \E i \in DOMAIN job.infos :
                      job.infos[i].inside /\ job.infos[i].num = f.num}
<1>1. PICK kept \in SUBSET mine :
        internal' = (internal \ mine) \cup {[f EXCEPT !.state = "undeleted"] : f \in kept}
      BY DEF DeleteInside
<1>2. internal \subseteq [num : Nat, of : Files, state : {"whole", "partial", "undeleted"}]
      BY TypesParts
<1>3. \A f \in kept :
        /\ [f EXCEPT !.state = "undeleted"] \in [num : Nat, of : Files, state : {"whole", "partial", "undeleted"}]
        /\ [f EXCEPT !.state = "undeleted"].state = "undeleted"
      BY <1>2
<1>4. \A f \in internal' : f \in internal \ mine \/ f.state = "undeleted"
      BY <1>1, <1>3
<1>5. internal' \subseteq [num : Nat, of : Files, state : {"whole", "partial", "undeleted"}]
      BY <1>1, <1>2, <1>3
<1> QED
  BY <1>1, <1>4, <1>5

LEMMA ElementReplaced ==
  ASSUME NEW S, NEW s \in Seq(S), NEW i \in 1 .. Len(s), NEW x \in S
  PROVE  LET t == [s EXCEPT ![i] = x]
         IN  /\ t \in Seq(S) /\ Len(t) = Len(s) /\ DOMAIN t = DOMAIN s /\ t # <<>>
             /\ t[i] = x /\ \A j \in DOMAIN s : j # i => t[j] = s[j]
OBVIOUS

\* An info of a sequence is changed, the others are not.
LEMMA InfoReplaced ==
  ASSUME NEW s \in Seq(Infos), NEW i \in 1 .. Len(s), NEW info \in Infos, NEW t,
         t = [s EXCEPT ![i] = info], info.name = s[i].name, info.num = s[i].num, info.path = s[i].path
  PROVE  /\ t \in Seq(Infos) /\ Len(t) = Len(s) /\ DOMAIN t = DOMAIN s /\ t # <<>>
         /\ t[i] = info /\ \A j \in DOMAIN s : j # i => t[j] = s[j]
         /\ \A j \in DOMAIN s : t[j].name = s[j].name /\ t[j].num = s[j].num /\ t[j].path = s[j].path
<1>1. /\ t \in Seq(Infos) /\ Len(t) = Len(s) /\ DOMAIN t = DOMAIN s /\ t # <<>>
      /\ t[i] = info /\ \A j \in DOMAIN s : j # i => t[j] = s[j]
      BY ElementReplaced
<1> QED
  BY <1>1

LEMMA InfoInside ==
  ASSUME NEW s \in Seq(Infos), NEW i \in 1 .. Len(s)
  PROVE  LET t == [s EXCEPT ![i].inside = TRUE]
         IN  /\ t \in Seq(Infos) /\ Len(t) = Len(s) /\ DOMAIN t = DOMAIN s /\ t # <<>>
             /\ t[i].inside /\ \A j \in DOMAIN s : j # i => t[j] = s[j]
             /\ \A j \in DOMAIN s : /\ t[j].name = s[j].name /\ t[j].num = s[j].num
                                    /\ t[j].path = s[j].path /\ t[j].seqno = s[j].seqno
<1> DEFINE info == [s[i] EXCEPT !.inside = TRUE]
           t == [s EXCEPT ![i].inside = TRUE]
<1>1. s[i] \in Infos
      OBVIOUS
<1>2. /\ info \in Infos /\ info.inside /\ info.name = s[i].name /\ info.num = s[i].num
      /\ info.path = s[i].path /\ info.seqno = s[i].seqno
      BY <1>1 DEF Infos
<1>3. t = [s EXCEPT ![i] = info]
      OBVIOUS
<1> HIDE DEF info, t
<1>4. /\ t \in Seq(Infos) /\ Len(t) = Len(s) /\ DOMAIN t = DOMAIN s /\ t # <<>>
      /\ t[i] = info /\ \A j \in DOMAIN s : j # i => t[j] = s[j]
      /\ \A j \in DOMAIN s : t[j].name = s[j].name /\ t[j].num = s[j].num /\ t[j].path = s[j].path
      BY <1>2, <1>3, InfoReplaced
<1>5. t[i].inside /\ \A j \in DOMAIN s : t[j].seqno = s[j].seqno
      BY <1>2, <1>4
<1> QED
  BY <1>4, <1>5 DEF t

\* A file is linked or copied, or Prepare fails.
LEMMA LinkFileJob ==
  ASSUME TypesInv, LinkFile
  PROVE  /\ job' \in Jobs
         /\ internal' \subseteq [num : Nat, of : Files, state : {"whole", "partial", "undeleted"}]
         /\ \/ /\ job'.pc = "unprepare" /\ ~job'.ok /\ job'.infos = job.infos /\ job'.i = job.i
               /\ \A f \in internal' : f \in internal \/ f.state = "partial"
            \/ /\ job'.infos = [job.infos EXCEPT ![job.i].inside = TRUE] /\ job'.ok = job.ok
               /\ internal' = internal \cup {[num |-> Info.num, of |-> Info.name, state |-> "whole"]}
               /\ \/ job.i < Len(job.infos) /\ job'.pc = "link" /\ job'.i = job.i + 1
                  \/ job.i = Len(job.infos) /\ job'.pc = "sync" /\ job'.i = job.i
         /\ internal \subseteq internal'
         /\ job'.last = job.last /\ job'.consumed = job.consumed
<1>1. PICK link \in LinkOutcomes, copy \in CopyOutcomes :
        LET state == IF Copies(link) THEN copy
                     ELSE IF link = "linked" THEN "whole" ELSE "none"
        IN  /\ internal' = IF state = "none" THEN internal
                           ELSE internal \cup {[num |-> Info.num, of |-> Info.name, state |-> state]}
            /\ job' = IF state # "whole" THEN [job EXCEPT !.pc = "unprepare", !.ok = FALSE]
                      ELSE IF job.i < Len(job.infos)
                      THEN [job EXCEPT !.infos[job.i].inside = TRUE, !.i = @ + 1]
                      ELSE [job EXCEPT !.infos[job.i].inside = TRUE, !.pc = "sync"]
      BY DEF LinkFile
<1> DEFINE state == IF Copies(link) THEN copy
                    ELSE IF link = "linked" THEN "whole" ELSE "none"
<1>2. state \in {"whole", "partial", "none"}
      BY DEF CopyOutcomes
<1>3. /\ internal' = IF state = "none" THEN internal
                     ELSE internal \cup {[num |-> Info.num, of |-> Info.name, state |-> state]}
      /\ job' = IF state # "whole" THEN [job EXCEPT !.pc = "unprepare", !.ok = FALSE]
                ELSE IF job.i < Len(job.infos)
                THEN [job EXCEPT !.infos[job.i].inside = TRUE, !.i = @ + 1]
                ELSE [job EXCEPT !.infos[job.i].inside = TRUE, !.pc = "sync"]
      BY <1>1
<1> HIDE DEF state
<1>4. job.pc = "link" /\ job.infos # <<>>
      BY DEF LinkFile, TypesInv, JobClaims
<1>5. /\ job \in Jobs /\ job.infos \in Seq(Infos) /\ Len(job.infos) \in Nat
      /\ job.i \in 1 .. Len(job.infos) /\ Info \in Infos
      BY <1>4, JobType
<1>6. Info.num \in Nat /\ Info.name \in Files
      BY <1>5 DEF Infos
<1>7. internal \subseteq [num : Nat, of : Files, state : {"whole", "partial", "undeleted"}]
      BY TypesParts
<1>8. /\ internal' \subseteq [num : Nat, of : Files, state : {"whole", "partial", "undeleted"}]
      /\ internal \subseteq internal'
      BY <1>2, <1>3, <1>6, <1>7
<1>9. CASE state # "whole"
  <2>1. job' = [job EXCEPT !.pc = "unprepare", !.ok = FALSE]
        BY <1>3, <1>9
  <2>2. /\ job' \in Jobs /\ job'.pc = "unprepare" /\ ~job'.ok /\ job'.infos = job.infos
        /\ job'.i = job.i /\ job'.last = job.last /\ job'.consumed = job.consumed
        BY <1>5, <2>1 DEF Jobs, JobStates
  <2>3. \A f \in internal' : f \in internal \/ f.state = "partial"
        BY <1>2, <1>3, <1>9
  <2> QED
        BY <1>8, <2>2, <2>3
<1>10. CASE state = "whole"
  <2> DEFINE linked == [job.infos EXCEPT ![job.i].inside = TRUE]
  <2>1. linked \in Seq(Infos)
        BY <1>5, InfoInside
  <2>2. internal' = internal \cup {[num |-> Info.num, of |-> Info.name, state |-> "whole"]}
        BY <1>3, <1>10
  <2>3. CASE job.i < Len(job.infos)
    <3>1. job' = [job EXCEPT !.infos = linked, !.i = job.i + 1]
          BY <1>3, <1>10, <2>3
    <3> HIDE DEF linked
    <3>a. job.i + 1 \in Nat
          BY <1>5
    <3>2. /\ job' \in Jobs /\ job'.pc = "link" /\ job'.infos = linked /\ job'.i = job.i + 1
          /\ job'.ok = job.ok /\ job'.last = job.last /\ job'.consumed = job.consumed
          BY <1>4, <1>5, <2>1, <3>a, <3>1 DEF Jobs, JobStates
    <3> QED
          BY <1>8, <2>2, <2>3, <3>2 DEF linked
  <2>4. CASE ~(job.i < Len(job.infos))
    <3>1. job' = [job EXCEPT !.infos = linked, !.pc = "sync"]
          BY <1>3, <1>10, <2>4
    <3>2. job.i = Len(job.infos)
          BY <1>5, <2>4
    <3> HIDE DEF linked
    <3>3. /\ job' \in Jobs /\ job'.pc = "sync" /\ job'.infos = linked /\ job'.i = job.i
          /\ job'.ok = job.ok /\ job'.last = job.last /\ job'.consumed = job.consumed
          BY <1>5, <2>1, <3>1 DEF Jobs, JobStates
    <3> QED
          BY <1>8, <2>2, <3>2, <3>3 DEF linked
  <2> QED
        BY <2>3, <2>4
<1> QED
  BY <1>9, <1>10

\* Run gives a file its level and sequence number, or fails.
LEMMA RunFileJob ==
  ASSUME TypesInv, RunFile
  PROVE  /\ job' \in Jobs
         /\ job'.infos # <<>> /\ Len(job'.infos) = Len(job.infos) /\ DOMAIN job'.infos = DOMAIN job.infos
         /\ \A j \in DOMAIN job.infos :
              /\ job'.infos[j].name = job.infos[j].name /\ job'.infos[j].num = job.infos[j].num
              /\ job'.infos[j].path = job.infos[j].path /\ job'.infos[j].inside = job.infos[j].inside
         /\ \/ /\ job'.pc = "cleanup" /\ ~job'.ok /\ job'.infos = job.infos /\ job'.i = job.i
            \/ \E seqno \in {0, job.last + 1} :
                 /\ job'.infos[job.i].seqno = seqno
                 /\ job'.infos[job.i].level = Call.external_level
                 /\ \A j \in DOMAIN job.infos : j # job.i => job'.infos[j] = job.infos[j]
                 /\ \/ seqno = 0 /\ job'.last = job.last /\ job'.consumed = job.consumed
                    \/ seqno = job.last + 1 /\ job'.last = seqno /\ job'.consumed = job.consumed + 1
                 /\ \/ job'.pc = "cleanup" /\ ~job'.ok /\ job'.i = job.i
                    \/ job.i < Len(job.infos) /\ job'.pc = "run" /\ job'.i = job.i + 1 /\ job'.ok = job.ok
                    \/ job.i = Len(job.infos) /\ job'.pc = "install" /\ job'.i = job.i /\ job'.ok = job.ok
<1> DEFINE n == Info.name
           seqno == AssignedSeqno(n)
           consumes == seqno > job.last
           ran == [job EXCEPT !.last = IF consumes THEN seqno ELSE @,
                              !.consumed = IF consumes THEN @ + 1 ELSE @,
                              !.infos[job.i] = [@ EXCEPT !.seqno = seqno, !.level = IngestedLevel(n)]]
<1>1. \/ job' = [job EXCEPT !.pc = "cleanup", !.ok = FALSE]
      \/ job' = [ran EXCEPT !.pc = "cleanup", !.ok = FALSE]
      \/ job.i < Len(job.infos) /\ job' = [ran EXCEPT !.i = @ + 1]
      \/ ~(job.i < Len(job.infos)) /\ job' = [ran EXCEPT !.pc = "install"]
      BY DEF RunFile
<1>2. job.pc = "run" /\ job.infos # <<>>
      BY DEF RunFile, TypesInv, JobClaims, AllLinked
<1>3. /\ job \in Jobs /\ job.infos \in Seq(Infos) /\ Len(job.infos) \in Nat
      /\ job.i \in 1 .. Len(job.infos)
      BY <1>2, JobType
<1>4. job.last \in Nat /\ job.consumed \in Nat /\ job.i \in Nat
      BY <1>3 DEF Jobs
<1>5. Call.external_level \in Levels
      BY <1>2, CallType
<1>6. seqno \in {0, job.last + 1}
      BY DEF AssignedSeqno
<1> HIDE DEF seqno
<1> DEFINE infos == [job.infos EXCEPT ![job.i] = [@ EXCEPT !.seqno = seqno, !.level = Call.external_level]]
           last == IF consumes THEN seqno ELSE job.last
           consumed == IF consumes THEN job.consumed + 1 ELSE job.consumed
<1>7. /\ infos \in Seq(Infos) /\ Len(infos) = Len(job.infos) /\ DOMAIN infos = DOMAIN job.infos /\ infos # <<>>
      /\ infos[job.i].seqno = seqno /\ infos[job.i].level = Call.external_level
      /\ \A j \in DOMAIN job.infos : j # job.i => infos[j] = job.infos[j]
      /\ \A j \in DOMAIN job.infos :
           /\ infos[j].name = job.infos[j].name /\ infos[j].num = job.infos[j].num
           /\ infos[j].path = job.infos[j].path /\ infos[j].inside = job.infos[j].inside
  <2>1. seqno \in Nat
        BY <1>4, <1>6
  <2> DEFINE info == [job.infos[job.i] EXCEPT !.seqno = seqno, !.level = Call.external_level]
  <2>2. job.infos[job.i] \in Infos
        BY <1>3
  <2>3. /\ info \in Infos /\ info.seqno = seqno /\ info.level = Call.external_level
        /\ info.name = job.infos[job.i].name /\ info.num = job.infos[job.i].num
        /\ info.path = job.infos[job.i].path /\ info.inside = job.infos[job.i].inside
        BY <1>5, <2>1, <2>2 DEF Infos
  <2>4. infos = [job.infos EXCEPT ![job.i] = info]
        OBVIOUS
  <2> HIDE DEF info, infos
  <2>5. /\ infos \in Seq(Infos) /\ Len(infos) = Len(job.infos) /\ DOMAIN infos = DOMAIN job.infos
        /\ infos # <<>> /\ infos[job.i] = info
        /\ \A j \in DOMAIN job.infos : j # job.i => infos[j] = job.infos[j]
        /\ \A j \in DOMAIN job.infos :
             /\ infos[j].name = job.infos[j].name /\ infos[j].num = job.infos[j].num
             /\ infos[j].path = job.infos[j].path
        BY <1>3, <2>3, <2>4, InfoReplaced
  <2> QED
        BY <2>3, <2>5
<1>8. ran = [job EXCEPT !.last = last, !.consumed = consumed,
                        !.infos = [job.infos EXCEPT ![job.i] =
                          [@ EXCEPT !.seqno = seqno, !.level = Call.external_level]]]
      BY <1>3 DEF IngestedLevel, Jobs
<1>9. last \in Nat /\ consumed \in Nat
      BY <1>4, <1>6
<1>10. \/ seqno = 0 /\ last = job.last /\ consumed = job.consumed
       \/ seqno = job.last + 1 /\ last = seqno /\ consumed = job.consumed + 1
      BY <1>4, <1>6
<1>a. ran = [job EXCEPT !.last = last, !.consumed = consumed, !.infos = infos]
      BY <1>3, <1>8
<1> HIDE DEF infos, last, consumed, consumes, ran
<1>11. /\ ran \in Jobs /\ ran.pc = "run" /\ ran.infos = infos /\ ran.i = job.i
       /\ ran.ok = job.ok /\ ran.last = last /\ ran.consumed = consumed
      BY <1>2, <1>3, <1>7, <1>9, <1>a DEF Jobs
<1>12. CASE job' = [job EXCEPT !.pc = "cleanup", !.ok = FALSE]
  <2>1. job' \in Jobs /\ job'.pc = "cleanup" /\ ~job'.ok /\ job'.infos = job.infos /\ job'.i = job.i
        BY <1>3, <1>12 DEF Jobs, JobStates
  <2> QED
        BY <1>2, <2>1
<1>13. CASE job' = [ran EXCEPT !.pc = "cleanup", !.ok = FALSE]
  <2>1. /\ job' \in Jobs /\ job'.pc = "cleanup" /\ ~job'.ok /\ job'.infos = infos
        /\ job'.i = job.i /\ job'.last = last /\ job'.consumed = consumed
        BY <1>11, <1>13 DEF Jobs, JobStates
  <2> QED
        BY <1>6, <1>7, <1>10, <2>1
<1>14. CASE job.i < Len(job.infos) /\ job' = [ran EXCEPT !.i = @ + 1]
  <2>1. /\ job' \in Jobs /\ job'.pc = "run" /\ job'.ok = job.ok /\ job'.infos = infos
        /\ job'.i = job.i + 1 /\ job'.last = last /\ job'.consumed = consumed
        BY <1>4, <1>11, <1>14 DEF Jobs, JobStates
  <2> QED
        BY <1>6, <1>7, <1>10, <1>14, <2>1
<1>15. CASE ~(job.i < Len(job.infos)) /\ job' = [ran EXCEPT !.pc = "install"]
  <2>1. /\ job' \in Jobs /\ job'.pc = "install" /\ job'.ok = job.ok /\ job'.infos = infos
        /\ job'.i = job.i /\ job'.last = last /\ job'.consumed = consumed
        BY <1>11, <1>15 DEF Jobs, JobStates
  <2>2. job.i = Len(job.infos)
        BY <1>3, <1>15
  <2> QED
        BY <1>6, <1>7, <1>10, <2>1, <2>2
<1> QED
  BY <1>1, <1>12, <1>13, <1>14, <1>15

\* The other steps of the job.
LEMMA ReadInfosJob ==
  ASSUME TypesInv, ReadInfos
  PROVE  /\ at \in DOMAIN calls /\ next_file_number' = next_file_number + Len(Call.files)
         /\ next_file_number' \in Nat /\ next_file_number' >= next_file_number
         /\ job' \in Jobs /\ job'.i = 1 /\ job'.consumed = 0
         /\ \/ job'.pc = "cleanup" /\ ~job'.ok /\ job'.infos = <<>>
            \/ /\ job'.pc = "link" /\ job'.ok /\ job'.infos # <<>>
               /\ Len(job'.infos) = Len(Call.files)
               /\ \A j \in DOMAIN job'.infos :
                    /\ job'.infos[j].name = Call.files[j] /\ job'.infos[j].path = PathId(Call.files[j])
                    /\ job'.infos[j].num >= next_file_number /\ job'.infos[j].num < next_file_number'
                    /\ ~job'.infos[j].inside /\ job'.infos[j].seqno = 0
<1> DEFINE infos == [i \in DOMAIN Call.files |->
                       [name |-> Call.files[i], num |-> next_file_number + i - 1,
                        path |-> PathId(Call.files[i]), inside |-> FALSE,
                        level |-> 0, seqno |-> 0]]
<1>1. job.pc = "idle" /\ at <= Len(calls) /\ next_file_number' = next_file_number + Len(Call.files)
      BY DEF ReadInfos
<1>2. calls \in Seq(IngestCalls) /\ at \in 1 .. Len(calls) + 1 /\ next_file_number \in Nat
      BY IngestAssumption DEF TypesInv, JobTypes, IngestTypeOK
<1>3. at \in DOMAIN calls
      BY <1>1, <1>2
<1>4. Call \in IngestCalls
      BY <1>2, <1>3 DEF Call
<1>5. Call.files \in Seq(Files)
      BY <1>4 DEF IngestCalls
<1>6. Len(Call.files) \in Nat /\ DOMAIN Call.files = 1 .. Len(Call.files)
      BY <1>5
<1>7. 0 \in Levels
      BY IngestAssumption DEF Levels
<1>8. \A i \in DOMAIN Call.files : infos[i] \in Infos
  <2> SUFFICES ASSUME NEW i \in DOMAIN Call.files
               PROVE  infos[i] \in Infos
      OBVIOUS
  <2>1. Call.files[i] \in Files /\ next_file_number + i - 1 \in Nat
        BY <1>2, <1>5, <1>6
  <2>2. PathId(Call.files[i]) \in Nat
        BY <2>1, PathIdType
  <2> QED
        BY <1>7, <2>1, <2>2 DEF Infos
<1>9. infos \in [1 .. Len(Call.files) -> Infos]
      BY <1>6, <1>8
<1>10. infos \in Seq(Infos) /\ Len(infos) = Len(Call.files) /\ DOMAIN infos = 1 .. Len(Call.files)
      BY <1>6, <1>9
<1>11. \A j \in DOMAIN infos :
         /\ infos[j].name = Call.files[j] /\ infos[j].path = PathId(Call.files[j])
         /\ infos[j].num = next_file_number + j - 1
         /\ ~infos[j].inside /\ infos[j].seqno = 0
      OBVIOUS
<1>12. \/ job' = [NoJob EXCEPT !.pc = "cleanup", !.ok = FALSE]
       \/ FilesAccepted /\ job' = [NoJob EXCEPT !.pc = "link", !.overlap = FilesOverlap, !.infos = infos]
      BY DEF ReadInfos
<1> HIDE DEF infos
<1>13. \A j \in DOMAIN infos : infos[j].num >= next_file_number /\ infos[j].num < next_file_number'
      BY <1>1, <1>2, <1>6, <1>10, <1>11
<1>14. next_file_number' \in Nat /\ next_file_number' >= next_file_number
      BY <1>1, <1>2, <1>6
<1>15. <<>> \in Seq(Infos)
      OBVIOUS
<1>16. CASE job' = [NoJob EXCEPT !.pc = "cleanup", !.ok = FALSE]
      BY <1>1, <1>3, <1>14, <1>15, <1>16 DEF NoJob, Jobs, JobStates
<1>17. CASE FilesAccepted /\ job' = [NoJob EXCEPT !.pc = "link", !.overlap = FilesOverlap, !.infos = infos]
  <2>1. FilesOverlap \in BOOLEAN
        BY DEF FilesOverlap
  <2>2. /\ job' \in Jobs /\ job'.i = 1 /\ job'.consumed = 0 /\ job'.pc = "link" /\ job'.ok
        /\ job'.infos = infos
        BY <1>10, <1>17, <2>1 DEF NoJob, Jobs, JobStates
  <2>3. infos # <<>>
        BY <1>5, <1>10, <1>17 DEF FilesAccepted
  <2> QED
        BY <1>1, <1>3, <1>10, <1>11, <1>13, <1>14, <2>2, <2>3
<1> QED
  BY <1>12, <1>16, <1>17

LEMMA StartRunJob ==
  ASSUME TypesInv, job.pc \in {"needs_flush", "flush"}, StartRun
  PROVE  /\ job' \in Jobs /\ job'.infos = job.infos /\ job'.i = 1
         /\ job'.pc = "run" /\ job'.ok = job.ok
         /\ job'.last = last_sequence /\ job'.consumed = job.consumed
<1>1. PICK force \in (IF Call.snapshot_consistency THEN MaySnapshot ELSE {FALSE}) :
        job' = [job EXCEPT !.pc = "run", !.i = 1, !.force = force, !.last = last_sequence]
      BY DEF StartRun
<1>2. force \in BOOLEAN /\ last_sequence \in Nat /\ job \in Jobs
      BY <1>1, IngestAssumption, JobType, TypesParts
<1> QED
  BY <1>1, <1>2 DEF Jobs, JobStates

LEMMA InfosKept ==
  ASSUME TypesInv, UNCHANGED <<calls, at>>, job'.infos = job.infos
  PROVE  InfosOfCall'
BY DEF TypesInv, JobClaims, InfosOfCall, Call

\* The workload's steps do not touch the job.
LEMMA TypesBeside ==
  ASSUME TypesInv, (\E k \in Keys : Put(k)) \/ Flush
  PROVE  TypesInv' /\ UNCHANGED <<calls, at, external, internal, job>>
<1>1. UNCHANGED <<calls, at, external, internal, job>>
      BY DEF Put, Flush
<1>2. LevelTypes' /\ memtable' \in [Keys -> Nat] /\ last_sequence' \in Nat /\ next_file_number' \in Nat
  <2>1. ASSUME NEW k \in Keys, Put(k)
        PROVE  LevelTypes' /\ memtable' \in [Keys -> Nat] /\ last_sequence' \in Nat /\ next_file_number' \in Nat
        BY <2>1, TypesParts DEF Put, LevelTypes
  <2>2. ASSUME Flush
        PROVE  LevelTypes' /\ memtable' \in [Keys -> Nat] /\ last_sequence' \in Nat /\ next_file_number' \in Nat
        BY <2>2, MemtableFlushed, TypesParts DEF Flush
  <2> QED
        BY <2>1, <2>2
<1>3. /\ job' \in Jobs /\ external' \subseteq Files /\ (job'.infos # <<>> => job'.i \in DOMAIN job'.infos)
      /\ internal' \subseteq [num : Nat, of : Files, state : {"whole", "partial", "undeleted"}]
      BY <1>1, JobType, TypesParts
<1>4. JobTypes'
      BY <1>1, <1>2, <1>3, TypesStay
<1>5. JobClaims'
      BY <1>1 DEF TypesInv, JobClaims, InfosOfCall, Call, AllLinked, Logged
<1> QED
  BY <1>1, <1>4, <1>5 DEF TypesInv

LEMMA TypesPrepare ==
  ASSUME TypesInv, ReadInfos \/ LinkFile \/ SyncDirs \/ CheckChecksums \/ PrepareFails
  PROVE  TypesInv'
<1> USE DEF dbVars
<1>1. ASSUME ReadInfos
      PROVE  TypesInv'
  <2>1. UNCHANGED <<calls, at, memtable, levels, last_sequence, external, internal>>
        BY <1>1 DEF ReadInfos
  <2>2. /\ at \in DOMAIN calls /\ job' \in Jobs /\ job'.i = 1 /\ next_file_number' \in Nat
        /\ \/ job'.pc = "cleanup" /\ ~job'.ok /\ job'.infos = <<>>
           \/ /\ job'.pc = "link" /\ job'.ok /\ job'.infos # <<>>
              /\ Len(job'.infos) = Len(Call.files)
              /\ \A j \in DOMAIN job'.infos :
                   job'.infos[j].name = Call.files[j] /\ job'.infos[j].path = PathId(Call.files[j])
        BY <1>1, ReadInfosJob
  <2>3. job'.infos # <<>> => job'.i \in DOMAIN job'.infos
        BY <2>2 DEF Jobs
  <2>4. JobTypes'
        BY <2>1, <2>2, <2>3, TypesParts, TypesStay DEF LevelTypes
  <2>5. Call' = Call
        BY <2>1 DEF Call
  <2>6. InfosOfCall'
        BY <2>2, <2>5 DEF InfosOfCall
  <2>7. JobClaims'
        BY <2>1, <2>2, <2>6 DEF JobClaims, AllLinked, Logged
  <2> QED
        BY <2>4, <2>7 DEF TypesInv
<1>2. ASSUME LinkFile
      PROVE  TypesInv'
  <2>1. UNCHANGED <<calls, at, memtable, levels, last_sequence, next_file_number, external>> /\ job.pc = "link"
        BY <1>2 DEF LinkFile
  <2>2. /\ job' \in Jobs
        /\ internal' \subseteq [num : Nat, of : Files, state : {"whole", "partial", "undeleted"}]
        /\ \/ job'.pc = "unprepare" /\ ~job'.ok /\ job'.infos = job.infos /\ job'.i = job.i
           \/ /\ job'.infos = [job.infos EXCEPT ![job.i].inside = TRUE] /\ job'.ok = job.ok
              /\ \/ job.i < Len(job.infos) /\ job'.pc = "link" /\ job'.i = job.i + 1
                 \/ job.i = Len(job.infos) /\ job'.pc = "sync" /\ job'.i = job.i
        BY <1>2, LinkFileJob
  <2>3. /\ job.infos # <<>> /\ job.ok /\ at \in DOMAIN calls /\ InfosOfCall
        BY <2>1 DEF TypesInv, JobClaims
  <2>4. /\ job.infos \in Seq(Infos) /\ job.i \in 1 .. Len(job.infos) /\ Len(job.infos) \in Nat
        /\ DOMAIN job.infos = 1 .. Len(job.infos)
        BY <2>3, JobType
  <2>5. /\ job'.infos # <<>> /\ Len(job'.infos) = Len(job.infos) /\ DOMAIN job'.infos = DOMAIN job.infos
        /\ \A j \in DOMAIN job.infos :
             job'.infos[j].name = job.infos[j].name /\ job'.infos[j].path = job.infos[j].path
    <3>1. CASE job'.infos = job.infos
          BY <2>3, <3>1
    <3>2. CASE job'.infos = [job.infos EXCEPT ![job.i].inside = TRUE]
          BY <2>4, <3>2, InfoInside
    <3> QED
          BY <2>2, <3>1, <3>2
  <2>6. job'.i \in DOMAIN job'.infos
        BY <2>2, <2>4, <2>5
  <2>7. JobTypes'
        BY <2>1, <2>2, <2>6, TypesParts, TypesStay DEF LevelTypes
  <2>8. Call' = Call
        BY <2>1 DEF Call
  <2>9. InfosOfCall'
        BY <2>3, <2>5, <2>8 DEF InfosOfCall
  <2>10. JobClaims'
        BY <2>1, <2>2, <2>3, <2>5, <2>9 DEF JobClaims, AllLinked, Logged
  <2> QED
        BY <2>7, <2>10 DEF TypesInv
<1>3. ASSUME SyncDirs \/ CheckChecksums
      PROVE  TypesInv'
  <2>1. /\ UNCHANGED <<calls, at, memtable, levels, last_sequence, next_file_number, external, internal>>
        /\ job.pc \in {"sync", "checksum"}
        /\ \E ok \in BOOLEAN, next \in {"checksum", "prepared"} :
             job' = [job EXCEPT !.pc = IF ok THEN next ELSE "unprepare", !.ok = ok]
    <3>1. Outcome("sync") \subseteq BOOLEAN /\ Outcome("generate") \subseteq BOOLEAN
          BY DEF Outcome
    <3>2. CASE SyncDirs
          BY <3>1, <3>2 DEF SyncDirs
    <3>3. CASE CheckChecksums
      <4>1. PICK generated \in BOOLEAN :
              LET ok == HasChecksums => /\ NeedGenerateChecksum => generated
                                        /\ ChecksumsAccepted
              IN  job' = [job EXCEPT !.pc = IF ok THEN "prepared" ELSE "unprepare", !.ok = ok]
            BY <3>1, <3>3 DEF CheckChecksums
      <4> QED
            BY <3>3, <4>1 DEF CheckChecksums
    <3> QED
          BY <1>3, <3>2, <3>3
  <2>2. PICK ok \in BOOLEAN, next \in {"checksum", "prepared"} :
          job' = [job EXCEPT !.pc = IF ok THEN next ELSE "unprepare", !.ok = ok]
        BY <2>1
  <2>3. /\ job' \in Jobs /\ job'.pc = (IF ok THEN next ELSE "unprepare") /\ job'.ok = ok
        /\ job'.infos = job.infos /\ job'.i = job.i
        BY <2>2, JobType DEF Jobs, JobStates
  <2>4. JobTypes'
        BY <2>1, <2>3, TypesParts, TypesMove DEF LevelTypes, PlaceKept
  <2>5. job.infos # <<>> /\ at \in DOMAIN calls
        BY <2>1 DEF TypesInv, JobClaims, AllLinked
  <2>6. InfosOfCall'
        BY <2>1, <2>3, InfosKept
  <2>7. JobClaims'
        BY <2>1, <2>3, <2>5, <2>6 DEF JobClaims, AllLinked, Logged
  <2> QED
        BY <2>4, <2>7 DEF TypesInv
<1>4. ASSUME PrepareFails
      PROVE  TypesInv'
  <2>1. /\ UNCHANGED <<calls, at, memtable, levels, last_sequence, next_file_number, external>>
        /\ job.pc = "unprepare" /\ job' = [job EXCEPT !.pc = "cleanup"]
        /\ internal' \subseteq [num : Nat, of : Files, state : {"whole", "partial", "undeleted"}]
        BY <1>4, InsideDeleted DEF PrepareFails
  <2>2. /\ job' \in Jobs /\ job'.pc = "cleanup" /\ job'.ok = job.ok
        /\ job'.infos = job.infos /\ job'.i = job.i
        BY <2>1, JobType DEF Jobs, JobStates
  <2>3. JobTypes'
        BY <2>1, <2>2, TypesParts, TypesMove DEF LevelTypes, PlaceKept
  <2>4. at \in DOMAIN calls /\ ~job.ok
        BY <2>1 DEF TypesInv, JobClaims
  <2>5. InfosOfCall'
        BY <2>1, <2>2, InfosKept
  <2>6. JobClaims'
        BY <2>1, <2>2, <2>4, <2>5 DEF JobClaims, AllLinked, Logged
  <2> QED
        BY <2>3, <2>6 DEF TypesInv
<1> QED
  BY <1>1, <1>2, <1>3, <1>4

LEMMA AddedType ==
  ASSUME TypesInv, job.infos # <<>>, NEW l \in Levels, NEW m \in AddedFiles(l)
  PROVE  /\ m.num \in Nat /\ m.path \in Nat /\ m.from \in Files
         /\ m.seq \in [DOMAIN m.seq -> Nat] /\ DOMAIN m.seq \subseteq Keys
         /\ \E j \in DOMAIN job.infos :
              /\ job.infos[j].level = l /\ m.num = job.infos[j].num /\ m.path = job.infos[j].path
              /\ m.from = job.infos[j].name /\ DOMAIN m.seq = ExtFile[job.infos[j].name].keys
              /\ \A k \in DOMAIN m.seq : m.seq[k] = job.infos[j].seqno
<1>1. PICK j \in DOMAIN job.infos :
        /\ job.infos[j].level = l
        /\ m = [num |-> job.infos[j].num, path |-> job.infos[j].path, from |-> job.infos[j].name,
                seq |-> [k \in ExtFile[job.infos[j].name].keys |-> job.infos[j].seqno]]
      BY DEF AddedFiles
<1>2. job.infos[j] \in Infos
      BY <1>1, JobType
<1>3. /\ job.infos[j].num \in Nat /\ job.infos[j].path \in Nat /\ job.infos[j].name \in Files
      /\ job.infos[j].seqno \in Nat
      BY <1>2 DEF Infos
<1>4. ExtFile[job.infos[j].name].keys \subseteq Keys
      BY <1>3, IngestAssumption
<1>5. /\ m.num = job.infos[j].num /\ m.path = job.infos[j].path /\ m.from = job.infos[j].name
      /\ DOMAIN m.seq = ExtFile[job.infos[j].name].keys
      /\ \A k \in DOMAIN m.seq : m.seq[k] = job.infos[j].seqno
      /\ m.seq = [k \in ExtFile[job.infos[j].name].keys |-> job.infos[j].seqno]
      BY <1>1
<1>6. m.seq \in [DOMAIN m.seq -> Nat]
      BY <1>3, <1>5
<1> QED
  BY <1>1, <1>3, <1>4, <1>5, <1>6

LEMMA InstallJob ==
  ASSUME TypesInv, Install
  PROVE  /\ job.pc = "install" /\ job.ok /\ job.infos # <<>> /\ at \in DOMAIN calls
         /\ job' \in Jobs /\ job'.pc = "cleanup" /\ job'.infos = job.infos /\ job'.i = job.i
         /\ \/ job'.ok /\ levels' = [l \in Levels |-> levels[l] \cup AddedFiles(l)]
            \/ ~job'.ok /\ levels' = levels
         /\ last_sequence' = last_sequence + job.consumed /\ job.consumed \in Nat
<1>1. Outcome("install") \subseteq BOOLEAN
      BY DEF Outcome
<1>2. PICK ok \in BOOLEAN :
        /\ levels' = IF ok THEN [l \in Levels |-> levels[l] \cup AddedFiles(l)] ELSE levels
        /\ job' = [job EXCEPT !.pc = "cleanup", !.ok = ok]
      BY <1>1 DEF Install
<1>3. job \in Jobs /\ job.pc = "install" /\ last_sequence' = last_sequence + job.consumed
      BY JobType DEF Install
<1>4. /\ job' \in Jobs /\ job'.pc = "cleanup" /\ job'.infos = job.infos /\ job'.i = job.i
      /\ job'.ok = ok /\ job.consumed \in Nat
      BY <1>2, <1>3 DEF Jobs, JobStates
<1>5. job.infos # <<>> /\ at \in DOMAIN calls /\ job.ok
      BY <1>3 DEF TypesInv, JobClaims, AllLinked
<1> QED
  BY <1>2, <1>3, <1>4, <1>5

LEMMA CleanupJob ==
  ASSUME TypesInv, Cleanup
  PROVE  /\ job.pc = "cleanup" /\ job' \in Jobs /\ job'.infos = <<>> /\ job'.consumed = 0
         /\ UNCHANGED <<calls, memtable, levels, last_sequence, next_file_number>>
         /\ \/ job.ok /\ job'.pc = "idle" /\ job'.ok /\ at' = at + 1 /\ internal' = internal
            \/ ~job.ok /\ job'.pc = "exited" /\ job'.ok /\ at' = at /\ DeleteInside
         /\ external' \subseteq external
         /\ \A n \in external \ external' : job.ok /\ \E j \in DOMAIN job.infos : n = job.infos[j].name
<1>1. /\ job.pc = "cleanup" /\ job' = [NoJob EXCEPT !.pc = IF job.ok THEN "idle" ELSE "exited"]
      /\ at' = (IF job.ok THEN at + 1 ELSE at)
      /\ IF job.ok THEN internal' = internal ELSE DeleteInside
      /\ UNCHANGED <<calls, memtable, levels, last_sequence, next_file_number>>
      BY DEF Cleanup, dbVars
<1>2. PICK kept \in SUBSET (IF job.ok /\ Call.move_files
                           THEN {job.infos[i].name : i \in DOMAIN job.infos} ELSE {}) :
        external' = external \ ((IF job.ok /\ Call.move_files
                                 THEN {job.infos[i].name : i \in DOMAIN job.infos} ELSE {}) \ kept)
      BY DEF Cleanup
<1>3. <<>> \in Seq(Infos) /\ job.ok \in BOOLEAN
      BY JobType DEF Jobs
<1>4. /\ job' \in Jobs /\ job'.infos = <<>> /\ job'.consumed = 0 /\ job'.ok
      /\ job'.pc = (IF job.ok THEN "idle" ELSE "exited")
      BY <1>1, <1>3 DEF NoJob, Jobs, JobStates
<1>5. external' \subseteq external
      BY <1>2
<1>6. \A n \in external \ external' : job.ok /\ \E j \in DOMAIN job.infos : n = job.infos[j].name
      BY <1>2
<1> QED
  BY <1>1, <1>3, <1>4, <1>5, <1>6

LEMMA TypesRun ==
  ASSUME TypesInv, StopWrites \/ NeedsFlush \/ FlushForJob \/ RunFile
  PROVE  TypesInv'
<1> USE DEF dbVars
<1>1. ASSUME StopWrites
      PROVE  TypesInv'
  <2>1. /\ UNCHANGED <<calls, at, memtable, levels, last_sequence, next_file_number, external, internal>>
        /\ job.pc = "prepared" /\ job' = [job EXCEPT !.pc = "needs_flush"]
        BY <1>1 DEF StopWrites
  <2>2. /\ job' \in Jobs /\ job'.pc = "needs_flush" /\ job'.ok = job.ok
        /\ job'.infos = job.infos /\ job'.i = job.i
        BY <2>1, JobType DEF Jobs, JobStates
  <2>3. JobTypes'
        BY <2>1, <2>2, TypesParts, TypesMove DEF LevelTypes, PlaceKept
  <2>4. at \in DOMAIN calls /\ job.ok /\ job.infos # <<>>
        BY <2>1 DEF TypesInv, JobClaims, AllLinked
  <2>5. InfosOfCall'
        BY <2>1, <2>2, InfosKept
  <2>6. JobClaims'
        BY <2>1, <2>2, <2>4, <2>5 DEF JobClaims, AllLinked, Logged
  <2> QED
        BY <2>3, <2>6 DEF TypesInv
<1>2. ASSUME NeedsFlush \/ FlushForJob
      PROVE  TypesInv'
  <2>1. /\ UNCHANGED <<calls, at, last_sequence, external, internal>>
        /\ job.pc \in {"needs_flush", "flush"}
        /\ UNCHANGED <<memtable, levels, next_file_number>> \/ FlushMemtable
        BY <1>2 DEF NeedsFlush, FlushForJob
  <2>2. \/ StartRun
        \/ job' = [job EXCEPT !.pc = "flush"]
        \/ job' = [job EXCEPT !.pc = "cleanup", !.ok = FALSE]
        BY <1>2 DEF NeedsFlush, FlushForJob
  <2>3. at \in DOMAIN calls /\ job.ok /\ job.infos # <<>>
        BY <2>1 DEF TypesInv, JobClaims, AllLinked
  <2>4. LevelTypes' /\ memtable' \in [Keys -> Nat] /\ next_file_number' \in Nat
        BY <2>1, MemtableFlushed, TypesParts DEF LevelTypes
  <2>5. /\ job' \in Jobs /\ job'.infos = job.infos /\ (job'.i = 1 \/ job'.i = job.i)
        /\ \/ job'.pc \in {"run", "flush"} /\ job'.ok
           \/ job'.pc = "cleanup" /\ ~job'.ok
    <3>1. CASE StartRun
          BY <2>1, <2>3, <3>1, StartRunJob
    <3>2. CASE job' = [job EXCEPT !.pc = "flush"]
          BY <2>3, <3>2, JobType DEF Jobs, JobStates
    <3>3. CASE job' = [job EXCEPT !.pc = "cleanup", !.ok = FALSE]
          BY <2>3, <3>3, JobType DEF Jobs, JobStates
    <3> QED
          BY <2>2, <3>1, <3>2, <3>3
  <2>6. job'.i \in DOMAIN job'.infos
        BY <2>3, <2>5, JobType
  <2>7. JobTypes'
        BY <2>1, <2>4, <2>5, <2>6, TypesParts, TypesStay
  <2>8. InfosOfCall'
        BY <2>1, <2>5, InfosKept
  <2>9. JobClaims'
        BY <2>1, <2>3, <2>5, <2>8 DEF JobClaims, AllLinked, Logged
  <2> QED
        BY <2>7, <2>9 DEF TypesInv
<1>3. ASSUME RunFile
      PROVE  TypesInv'
  <2>1. /\ UNCHANGED <<calls, at, memtable, levels, last_sequence, next_file_number, external, internal>>
        /\ job.pc = "run"
        BY <1>3 DEF RunFile
  <2>2. /\ job.infos # <<>> /\ job.ok /\ at \in DOMAIN calls /\ InfosOfCall
        BY <2>1 DEF TypesInv, JobClaims, AllLinked
  <2>3. /\ job.infos \in Seq(Infos) /\ job.i \in 1 .. Len(job.infos) /\ Len(job.infos) \in Nat
        /\ DOMAIN job.infos = 1 .. Len(job.infos)
        BY <2>2, JobType
  <2>4. job.last \in Nat /\ Call.external_level \in Levels
        BY <2>1, JobType, CallType DEF Jobs
  <2>5. /\ job' \in Jobs
        /\ \/ job'.pc = "cleanup" /\ ~job'.ok /\ job'.i = job.i
           \/ job.i < Len(job.infos) /\ job'.pc = "run" /\ job'.i = job.i + 1 /\ job'.ok = job.ok
           \/ job'.pc = "install" /\ job'.i = job.i /\ job'.ok = job.ok
        BY <1>3, RunFileJob
  <2>6. /\ job'.infos # <<>> /\ Len(job'.infos) = Len(job.infos) /\ DOMAIN job'.infos = DOMAIN job.infos
        /\ \A j \in DOMAIN job.infos :
             job'.infos[j].name = job.infos[j].name /\ job'.infos[j].path = job.infos[j].path
        BY <1>3, RunFileJob
  <2>7. job'.i \in DOMAIN job'.infos
        BY <2>3, <2>5, <2>6
  <2>8. JobTypes'
        BY <2>1, <2>5, <2>7, TypesParts, TypesStay DEF LevelTypes
  <2>9. Call' = Call
        BY <2>1 DEF Call
  <2>10. InfosOfCall'
        BY <2>2, <2>6, <2>9 DEF InfosOfCall
  <2>11. JobClaims'
        BY <2>1, <2>2, <2>5, <2>6, <2>10 DEF JobClaims, AllLinked, Logged
  <2> QED
        BY <2>8, <2>11 DEF TypesInv
<1> QED
  BY <1>1, <1>2, <1>3

LEMMA TypesEnd ==
  ASSUME TypesInv, Install \/ Cleanup
  PROVE  TypesInv'
<1> USE DEF dbVars
<1>1. ASSUME Install
      PROVE  TypesInv'
  <2>1. UNCHANGED <<calls, at, memtable, next_file_number, external, internal>>
        BY <1>1 DEF Install
  <2>2. /\ job.pc = "install" /\ job.ok /\ job.infos # <<>> /\ at \in DOMAIN calls
        /\ job' \in Jobs /\ job'.pc = "cleanup" /\ job'.infos = job.infos /\ job'.i = job.i
        /\ \/ job'.ok /\ levels' = [l \in Levels |-> levels[l] \cup AddedFiles(l)]
           \/ ~job'.ok /\ levels' = levels
        /\ last_sequence' = last_sequence + job.consumed /\ job.consumed \in Nat
        BY <1>1, InstallJob
  <2>3. LevelTypes'
    <3>1. CASE levels' = levels
          BY <3>1, TypesParts DEF LevelTypes
    <3>2. CASE levels' = [l \in Levels |-> levels[l] \cup AddedFiles(l)]
      <4>1. ASSUME NEW l \in Levels, NEW m \in levels'[l]
            PROVE  /\ m.num \in Nat /\ m.path \in Nat /\ m.from \in Files \cup {Workload}
                   /\ m.seq \in [DOMAIN m.seq -> Nat] /\ DOMAIN m.seq \subseteq Keys
        <5>1. CASE m \in levels[l]
              BY <5>1, TypesParts DEF LevelTypes
        <5>2. CASE m \in AddedFiles(l)
              BY <2>2, <5>2, AddedType
        <5> QED
              BY <3>2, <4>1, <5>1, <5>2
      <4>2. DOMAIN levels' = Levels
            BY <3>2
      <4> QED
            BY <4>1, <4>2 DEF LevelTypes
    <3> QED
          BY <2>2, <3>1, <3>2
  <2>4. last_sequence' \in Nat
        BY <2>2, TypesParts
  <2>5. JobTypes'
        BY <2>1, <2>2, <2>3, <2>4, TypesParts, TypesMove DEF PlaceKept
  <2>6. InfosOfCall'
        BY <2>1, <2>2, InfosKept
  <2>7. JobClaims'
        BY <2>1, <2>2, <2>6 DEF JobClaims, AllLinked, Logged
  <2> QED
        BY <2>5, <2>7 DEF TypesInv
<1>2. ASSUME Cleanup
      PROVE  TypesInv'
  <2>1. /\ job.pc = "cleanup" /\ job' \in Jobs /\ job'.infos = <<>>
        /\ UNCHANGED <<calls, memtable, levels, last_sequence, next_file_number>>
        /\ \/ job'.pc = "idle" /\ job'.ok /\ at' = at + 1 /\ internal' = internal
           \/ job'.pc = "exited" /\ at' = at /\ DeleteInside
        /\ external' \subseteq external
        BY <1>2, CleanupJob
  <2>2. internal' \subseteq [num : Nat, of : Files, state : {"whole", "partial", "undeleted"}]
        BY <2>1, InsideDeleted, TypesParts
  <2>3. at \in 1 .. Len(calls) /\ Len(calls) \in Nat
        BY <2>1, CallType
  <2>4. at' \in 1 .. Len(calls') + 1 /\ calls' \in CallSets
        BY <2>1, <2>3 DEF TypesInv, JobTypes, IngestTypeOK
  <2>5. \A f \in internal' : f.num \in Nat /\ f.of \in Files /\ f.state \in {"whole", "partial", "undeleted"}
        BY <2>2
  <2>6. IngestTypeOK'
        BY <2>1, <2>4, <2>5, TypesParts DEF IngestTypeOK, LevelTypes
  <2>7. JobTypes'
        BY <2>1, <2>2, <2>6, TypesParts DEF JobTypes, LevelTypes
  <2>8. JobClaims'
        BY <2>1 DEF JobClaims, InfosOfCall, AllLinked, Logged
  <2> QED
        BY <2>7, <2>8 DEF TypesInv
<1> QED
  BY <1>1, <1>2

LEMMA TypesStep == TypesInv /\ [IngestNext]_ingestVars => TypesInv'
<1> SUFFICES ASSUME TypesInv, [IngestNext]_ingestVars
             PROVE  TypesInv'
    OBVIOUS
<1>1. CASE IngestNext
      BY <1>1, TypesBeside, TypesPrepare, TypesRun, TypesEnd DEF IngestNext
<1>2. CASE UNCHANGED ingestVars
      BY <1>2 DEF ingestVars, TypesInv, JobTypes, JobClaims, IngestTypeOK, InfosOfCall, Call, AllLinked, Logged
<1> QED
  BY <1>1, <1>2

LEMMA TypesAlways == IngestSpec => []TypesInv
<1>1. QED
  BY TypesInit, TypesStep, PTL DEF IngestSpec

\* The types of the ingestion: levels, files and the job keep theirs, whatever
\* fails, and the job is at one of its files.
THEOREM IngestTypeCorrect == IngestSpec => []IngestTypeOK
<1>1. TypesInv => IngestTypeOK
      BY DEF TypesInv, JobTypes
<1> QED
  BY <1>1, TypesAlways, PTL

-------------------------------------------------------------------------------
(* Run meets no memtable *)

LEMMA NoOverlapKept ==
  ASSUME UNCHANGED memtable, DOMAIN job'.infos = DOMAIN job.infos,
         \A j \in DOMAIN job.infos : job'.infos[j].name = job.infos[j].name,
         ~OverlapWithMemtables
  PROVE  ~OverlapWithMemtables'
BY DEF OverlapWithMemtables, InRange, Smallest, Largest

\* The state of the job after a step.
LEMMA JobMoves ==
  ASSUME TypesInv, IngestNext
  PROVE  \/ (\E k \in Keys : Put(k)) \/ Flush
         \/ NeedsFlush \/ FlushForJob
         \/ RunFile /\ job.pc = "run" /\ job'.pc \in {"run", "install", "cleanup"}
         \/ job'.pc \notin {"run", "install"}
<1>1. ReadInfos => job'.pc \notin {"run", "install"}
      BY ReadInfosJob
<1>2. LinkFile => job'.pc \notin {"run", "install"}
      BY LinkFileJob
<1>3. SyncDirs \/ CheckChecksums \/ PrepareFails \/ StopWrites => job'.pc \notin {"run", "install"}
      BY JobType DEF SyncDirs, CheckChecksums, PrepareFails, StopWrites, Jobs
<1>4. Install => job'.pc \notin {"run", "install"}
      BY InstallJob
<1>5. Cleanup => job'.pc \notin {"run", "install"}
      BY CleanupJob
<1>6. RunFile => job.pc = "run" /\ job'.pc \in {"run", "install", "cleanup"}
      BY RunFileJob DEF RunFile
<1> QED
  BY <1>1, <1>2, <1>3, <1>4, <1>5, <1>6 DEF IngestNext

LEMMA RunMeetsStep == TypesInv /\ RunMeetsNoMemtable /\ [IngestNext]_ingestVars => RunMeetsNoMemtable'
<1> SUFFICES ASSUME TypesInv, RunMeetsNoMemtable, [IngestNext]_ingestVars, job'.pc = "run"
             PROVE  ~OverlapWithMemtables'
    BY DEF RunMeetsNoMemtable
<1>1. CASE \E k \in Keys : Put(k)
  <2>1. job' = job /\ job.pc # "run"
        BY <1>1 DEF Put, WritesStopped
  <2> QED
        BY <2>1
<1>2. CASE Flush
  <2>1. job' = job /\ job.pc # "run"
        BY <1>2 DEF Flush
  <2> QED
        BY <2>1
<1>3. CASE NeedsFlush
  <2>1. job.pc = "needs_flush" /\ UNCHANGED memtable
        BY <1>3 DEF NeedsFlush, dbVars
  <2>2. \/ ~OverlapWithMemtables /\ StartRun
        \/ job' = [job EXCEPT !.pc = "flush"] \/ job' = [job EXCEPT !.pc = "cleanup", !.ok = FALSE]
        BY <1>3 DEF NeedsFlush
  <2>3. ~OverlapWithMemtables /\ StartRun
        BY <2>2, JobType DEF Jobs
  <2>4. job'.infos = job.infos
        BY <2>1, <2>3, StartRunJob
  <2> QED
        BY <2>1, <2>3, <2>4, NoOverlapKept
<1>4. CASE FlushForJob
  <2>1. \/ FlushMemtable \/ job' = [job EXCEPT !.pc = "cleanup", !.ok = FALSE]
        BY <1>4 DEF FlushForJob
  <2>2. FlushMemtable
        BY <2>1, JobType DEF Jobs
  <2>3. \A k \in Keys : memtable'[k] = 0
        BY <2>2 DEF FlushMemtable
  <2> QED
        BY <2>3 DEF OverlapWithMemtables
<1>5. CASE RunFile
  <2>1. job.pc = "run" /\ UNCHANGED memtable
        BY <1>5 DEF RunFile, dbVars
  <2>2. /\ DOMAIN job'.infos = DOMAIN job.infos
        /\ \A j \in DOMAIN job.infos : job'.infos[j].name = job.infos[j].name
        BY <1>5, RunFileJob
  <2>3. ~OverlapWithMemtables
        BY <2>1 DEF RunMeetsNoMemtable
  <2> QED
        BY <2>1, <2>2, <2>3, NoOverlapKept
<1>6. CASE UNCHANGED ingestVars
  <2>1. UNCHANGED <<job, memtable>>
        BY <1>6 DEF ingestVars
  <2> QED
        BY <2>1 DEF RunMeetsNoMemtable, OverlapWithMemtables, InRange, Smallest, Largest
<1> QED
  BY <1>1, <1>2, <1>3, <1>4, <1>5, <1>6, JobMoves

\* The assertion of Run: no memtable holds a key of the range of the job's
\* files, though the workload puts keys until the job is the only writer.
THEOREM RunMeetsNoMemtableCorrect == IngestSpec => []RunMeetsNoMemtable
<1>1. IngestInit => RunMeetsNoMemtable
      BY DEF IngestInit, NoJob, RunMeetsNoMemtable
<1> QED
  BY <1>1, RunMeetsStep, TypesAlways, PTL DEF IngestSpec

-------------------------------------------------------------------------------
(* The files in the database's directories *)

\* A flush adds a file of the workload, with a new number, to level 0.
LEMMA FlushedFile ==
  ASSUME TypesInv, FlushMemtable
  PROVE  /\ next_file_number' = next_file_number + 1
         /\ \A l \in Levels : levels[l] \subseteq levels'[l]
         /\ \A l \in Levels : \A m \in levels'[l] \ levels[l] :
              /\ l = 0 /\ m.num = next_file_number /\ m.from = Workload
              /\ DOMAIN m.seq = {k \in Keys : memtable[k] > 0} /\ DOMAIN m.seq # {}
              /\ \A k \in DOMAIN m.seq : m.seq[k] = memtable[k]
         /\ \E m \in levels'[0] :
              /\ m.from = Workload /\ DOMAIN m.seq = {k \in Keys : memtable[k] > 0}
              /\ \A k \in DOMAIN m.seq : m.seq[k] = memtable[k]
         /\ \A a, b \in levels'[0] : a \notin levels[0] /\ b \notin levels[0] => a = b
         /\ memtable' = [k \in Keys |-> 0]
<1> DEFINE held == {k \in Keys : memtable[k] > 0}
           file == [num |-> next_file_number, path |-> 0, from |-> Workload,
                    seq |-> [k \in held |-> memtable[k]]]
<1>1. DOMAIN levels = Levels /\ 0 \in Levels
      BY TypesParts, IngestAssumption DEF LevelTypes, Levels
<1>2. /\ held # {} /\ levels' = [levels EXCEPT ![0] = @ \cup {file}]
      /\ memtable' = [k \in Keys |-> 0] /\ next_file_number' = next_file_number + 1
      BY DEF FlushMemtable
<1>3. /\ file.num = next_file_number /\ file.from = Workload /\ DOMAIN file.seq = held
      /\ \A k \in held : file.seq[k] = memtable[k]
      OBVIOUS
<1> HIDE DEF file
<1>4. /\ levels'[0] = levels[0] \cup {file}
      /\ \A l \in Levels : l # 0 => levels'[l] = levels[l]
      BY <1>1, <1>2
<1> QED
  BY <1>1, <1>2, <1>3, <1>4

\* A step that installs, links and deletes nothing: the workload may flush, and
\* the job may move on.
Quiet ==
  /\ UNCHANGED <<calls, at, external, internal>>
  /\ next_file_number' \in {next_file_number, next_file_number + 1}
  /\ \A l \in Levels : levels[l] \subseteq levels'[l]
  /\ \A l \in Levels : \A m \in levels'[l] \ levels[l] :
       m.num = next_file_number /\ next_file_number' = next_file_number + 1 /\ m.from = Workload
  /\ Len(job'.infos) = Len(job.infos) /\ DOMAIN job'.infos = DOMAIN job.infos
  /\ \A j \in DOMAIN job.infos :
       /\ job'.infos[j].name = job.infos[j].name /\ job'.infos[j].num = job.infos[j].num
       /\ job'.infos[j].path = job.infos[j].path /\ job'.infos[j].inside = job.infos[j].inside
  /\ Logged' <=> Logged
  /\ job'.pc = "link" => job.pc = "link" /\ job'.i = job.i
  /\ AllLinked' => AllLinked
  /\ job'.ok => job.ok

LEMMA QuietSteps ==
  ASSUME TypesInv,
         \/ (\E k \in Keys : Put(k)) \/ Flush \/ SyncDirs \/ CheckChecksums \/ StopWrites
         \/ NeedsFlush \/ FlushForJob \/ RunFile \/ UNCHANGED ingestVars
  PROVE  Quiet
<1> USE DEF dbVars
<1>0. next_file_number \in Nat /\ job \in Jobs /\ (job.pc \notin {"cleanup", "unprepare", "exited"} => job.ok)
      BY TypesParts, JobType DEF TypesInv, JobClaims
<1>1. CASE (\E k \in Keys : Put(k)) \/ UNCHANGED ingestVars
  <2>1. UNCHANGED <<calls, at, levels, next_file_number, external, internal, job>>
        BY <1>1 DEF Put, ingestVars
  <2> QED
        BY <1>0, <2>1 DEF Quiet, Logged, AllLinked
<1>2. CASE Flush
  <2>1. UNCHANGED <<calls, at, external, internal, job>> /\ FlushMemtable
        BY <1>2 DEF Flush
  <2> QED
        BY <1>0, <2>1, FlushedFile DEF Quiet, Logged, AllLinked
<1>3. CASE SyncDirs \/ CheckChecksums \/ StopWrites
  <2>1. UNCHANGED <<calls, at, levels, next_file_number, external, internal>>
        BY <1>3 DEF SyncDirs, CheckChecksums, StopWrites
  <2>2. /\ job.pc \in {"sync", "checksum", "prepared"}
        /\ job'.infos = job.infos /\ job'.i = job.i
        /\ job'.pc \in {"checksum", "prepared", "needs_flush", "unprepare"}
        BY <1>0, <1>3 DEF SyncDirs, CheckChecksums, StopWrites, Jobs
  <2> QED
        BY <1>0, <2>1, <2>2 DEF Quiet, Logged, AllLinked
<1>4. CASE NeedsFlush \/ FlushForJob
  <2>1. /\ UNCHANGED <<calls, at, external, internal>> /\ job.pc \in {"needs_flush", "flush"}
        /\ UNCHANGED <<levels, next_file_number>> \/ FlushMemtable
        BY <1>4 DEF NeedsFlush, FlushForJob
  <2>2. \/ StartRun \/ job' = [job EXCEPT !.pc = "flush"]
        \/ job' = [job EXCEPT !.pc = "cleanup", !.ok = FALSE]
        BY <1>4 DEF NeedsFlush, FlushForJob
  <2>3. /\ job'.infos = job.infos
        /\ \/ job'.pc \in {"run", "flush"}
           \/ job'.pc = "cleanup" /\ ~job'.ok
    <3>1. CASE StartRun
          BY <2>1, <3>1, StartRunJob
    <3>2. CASE job' = [job EXCEPT !.pc = "flush"] \/ job' = [job EXCEPT !.pc = "cleanup", !.ok = FALSE]
          BY <1>0, <3>2 DEF Jobs
    <3> QED
          BY <2>2, <3>1, <3>2
  <2>4. /\ next_file_number' \in {next_file_number, next_file_number + 1}
        /\ \A l \in Levels : levels[l] \subseteq levels'[l]
        /\ \A l \in Levels : \A m \in levels'[l] \ levels[l] :
             m.num = next_file_number /\ next_file_number' = next_file_number + 1 /\ m.from = Workload
        BY <1>0, <2>1, FlushedFile
  <2> QED
        BY <1>0, <2>1, <2>3, <2>4 DEF Quiet, Logged, AllLinked
<1>5. CASE RunFile
  <2>1. UNCHANGED <<calls, at, levels, next_file_number, external, internal>> /\ job.pc = "run"
        BY <1>5 DEF RunFile
  <2>2. /\ Len(job'.infos) = Len(job.infos) /\ DOMAIN job'.infos = DOMAIN job.infos
        /\ \A j \in DOMAIN job.infos :
             /\ job'.infos[j].name = job.infos[j].name /\ job'.infos[j].num = job.infos[j].num
             /\ job'.infos[j].path = job.infos[j].path /\ job'.infos[j].inside = job.infos[j].inside
        /\ \/ job'.pc \in {"run", "install"}
           \/ job'.pc = "cleanup" /\ ~job'.ok
        BY <1>5, RunFileJob
  <2> QED
        BY <1>0, <2>1, <2>2 DEF Quiet, Logged, AllLinked
<1> QED
  BY <1>1, <1>2, <1>3, <1>4, <1>5

\* What Quiet leaves of the files.
FilesClaims == FileNumbers /\ JobFiles /\ JobInstalled /\ WholeFiles /\ NothingLost

\* The data of an SSTable that a level holds stays reachable.
LEMMA InstalledKept ==
  ASSUME NEW n, Installed(n), \A l \in Levels : levels[l] \subseteq levels'[l],
         \A l \in Levels : \A m \in levels[l] : m.from = n =>
           \A f \in internal : f.num = m.num => f \in internal'
  PROVE  Installed(n)'
BY DEF Installed

LEMMA FilesQuiet ==
  ASSUME TypesInv, FilesClaims, Quiet
  PROVE  FilesClaims'
<1>1. /\ next_file_number \in Nat /\ next_file_number' \in {next_file_number, next_file_number + 1}
      /\ UNCHANGED <<calls, at, external, internal>>
      BY TypesParts DEF Quiet
<1>2. /\ \A l \in Levels : levels[l] \subseteq levels'[l]
      /\ \A l \in Levels : \A m \in levels'[l] \ levels[l] :
           m.num = next_file_number /\ next_file_number' = next_file_number + 1 /\ m.from = Workload
      BY DEF Quiet
<1>3. /\ DOMAIN job'.infos = DOMAIN job.infos
      /\ \A j \in DOMAIN job.infos :
           /\ job'.infos[j].name = job.infos[j].name /\ job'.infos[j].num = job.infos[j].num
           /\ job'.infos[j].path = job.infos[j].path /\ job'.infos[j].inside = job.infos[j].inside
      BY DEF Quiet
<1>4. /\ Logged' <=> Logged
      /\ AllLinked' => AllLinked
      /\ job'.ok => job.ok
      /\ job'.pc = "link" => job.pc = "link" /\ job'.i = job.i
      BY DEF Quiet
<1>5. \A j \in DOMAIN job.infos : job.infos[j].num \in Nat
      BY JobType DEF Infos
<1>6. /\ \A l \in Levels : \A m \in levels[l] : m.num \in Nat /\ m.num < next_file_number
      /\ \A j \in DOMAIN job.infos : job.infos[j].num < next_file_number
      /\ ~Logged => \A l \in Levels : \A m \in levels[l] : \A j \in DOMAIN job.infos :
           m.num # job.infos[j].num
      BY TypesParts DEF LevelTypes, FilesClaims, FileNumbers
<1>7. FileNumbers'
  <2>0. next_file_number' \in Nat /\ next_file_number' >= next_file_number
        BY <1>1
  <2>1. ASSUME NEW l \in Levels, NEW m \in levels'[l]
        PROVE  m.num < next_file_number'
    <3>1. CASE m \in levels[l]
      <4>1. m.num \in Nat /\ m.num < next_file_number
            BY <1>6, <3>1
      <4> QED
            BY <2>0, <1>1, <4>1
    <3>2. CASE m \notin levels[l]
          BY <1>1, <1>2, <3>2
    <3> QED
          BY <3>1, <3>2
  <2>2. ASSUME NEW j \in DOMAIN job'.infos
        PROVE  job'.infos[j].num < next_file_number'
    <3>1. job'.infos[j].num \in Nat /\ job'.infos[j].num < next_file_number
          BY <1>3, <1>5, <1>6
    <3> QED
          BY <1>1, <2>0, <3>1
  <2>3. ASSUME ~Logged', NEW l \in Levels, NEW m \in levels'[l], NEW j \in DOMAIN job'.infos
        PROVE  m.num # job'.infos[j].num
    <3>1. CASE m \in levels[l]
          BY <1>3, <1>4, <1>6, <2>3, <3>1
    <3>2. CASE m \notin levels[l]
      <4>1. m.num = next_file_number
            BY <1>2, <3>2
      <4> QED
            BY <1>1, <1>3, <1>5, <1>6, <4>1
    <3> QED
          BY <3>1, <3>2
  <2> QED
        BY <2>1, <2>2, <2>3 DEF FileNumbers
<1>8. JobFiles'
      BY <1>1, <1>3, <1>4 DEF FilesClaims, JobFiles
<1>9. JobInstalled'
  <2>1. Call' = Call
        BY <1>1 DEF Call
  <2>2. ASSUME Logged, NEW j \in DOMAIN job.infos
        PROVE  \E m \in levels'[Call.external_level] :
                 /\ m.num = job.infos[j].num /\ m.from = job.infos[j].name
                 /\ m.path = job.infos[j].path
                 /\ DOMAIN m.seq = ExtFile[job.infos[j].name].keys
    <3>1. PICK m \in levels[Call.external_level] :
            /\ m.num = job.infos[j].num /\ m.from = job.infos[j].name
            /\ m.path = job.infos[j].path
            /\ DOMAIN m.seq = ExtFile[job.infos[j].name].keys
          BY <2>2 DEF FilesClaims, JobInstalled
    <3>2. Call.external_level \in Levels
          BY <2>2, CallType DEF Logged
    <3> QED
          BY <1>2, <3>1, <3>2
  <2> QED
        BY <1>3, <1>4, <2>1, <2>2 DEF JobInstalled
<1>10. WholeFiles'
  <2>1. WholeFiles
        BY DEF FilesClaims
  <2>2. ASSUME NEW f \in internal, f.state = "whole"
        PROVE  \/ \E l \in Levels : \E m \in levels'[l] : m.num = f.num
               \/ \E j \in DOMAIN job'.infos : job'.infos[j].inside /\ job'.infos[j].num = f.num
        BY <1>2, <1>3, <2>1, <2>2 DEF WholeFiles
  <2> QED
        BY <1>1, <2>2 DEF WholeFiles
<1>11. NothingLost'
  <2>1. NothingLost
        BY DEF FilesClaims
  <2>2. \A n \in Files : n \in external' \/ Installed(n)'
    <3> SUFFICES ASSUME NEW n \in Files, n \notin external
                 PROVE  Installed(n)'
        BY <1>1
    <3>1. Installed(n)
          BY <2>1 DEF NothingLost
    <3> QED
          BY <1>1, <1>2, <3>1, InstalledKept
  <2>3. \A l \in Levels : \A m \in levels'[l] :
          m.from # Workload => \E f \in internal' : f.num = m.num /\ f.state = "whole"
        BY <1>1, <1>2, <2>1 DEF NothingLost
  <2> QED
        BY <2>2, <2>3 DEF NothingLost
<1> QED
  BY <1>7, <1>8, <1>9, <1>10, <1>11 DEF FilesClaims

LEMMA FilesReadInfos ==
  ASSUME TypesInv, FilesClaims, ReadInfos
  PROVE  FilesClaims'
<1>1. UNCHANGED <<calls, at, levels, external, internal>> /\ job.pc = "idle" /\ job.infos = <<>>
      BY DEF ReadInfos, dbVars, TypesInv, JobClaims
<1>2. /\ next_file_number' \in Nat /\ next_file_number' >= next_file_number /\ next_file_number \in Nat
      /\ job'.i = 1 /\ job' \in Jobs
      /\ \/ job'.pc = "cleanup" /\ ~job'.ok /\ job'.infos = <<>>
         \/ /\ job'.pc = "link" /\ job'.ok
            /\ \A j \in DOMAIN job'.infos :
                 /\ job'.infos[j].num >= next_file_number /\ job'.infos[j].num < next_file_number'
                 /\ ~job'.infos[j].inside
      BY ReadInfosJob, TypesParts
<1>3. \A l \in Levels : \A m \in levels[l] : m.num \in Nat /\ m.num < next_file_number
      BY TypesParts DEF LevelTypes, FilesClaims, FileNumbers
<1>4. job'.infos \in Seq(Infos)
      BY <1>2 DEF Jobs
<1>5. \A j \in DOMAIN job'.infos : job'.infos[j].num \in Nat /\ j \in Nat /\ j >= 1
  <2>1. \A j \in DOMAIN job'.infos : job'.infos[j] \in Infos /\ j \in Nat /\ j >= 1
        BY <1>4
  <2> QED
        BY <2>1 DEF Infos
<1>6. FileNumbers'
  <2>1. \A l \in Levels : \A m \in levels[l] : m.num < next_file_number'
        BY <1>2, <1>3
  <2>2. \A j \in DOMAIN job'.infos : job'.infos[j].num < next_file_number'
        BY <1>2
  <2>3. ASSUME NEW l \in Levels, NEW m \in levels[l], NEW j \in DOMAIN job'.infos
        PROVE  m.num # job'.infos[j].num
    <3>1. m.num \in Nat /\ m.num < next_file_number /\ job'.infos[j].num \in Nat
          BY <1>3, <1>5
    <3>2. job'.infos[j].num >= next_file_number
          BY <1>2
    <3> QED
          BY <1>2, <3>1, <3>2
  <2> QED
        BY <1>1, <2>1, <2>2, <2>3 DEF FileNumbers
<1>7. JobFiles'
      BY <1>2, <1>5 DEF JobFiles, AllLinked, Logged
<1>8. JobInstalled'
      BY <1>2 DEF JobInstalled, Logged
<1>9. WholeFiles'
      BY <1>1 DEF FilesClaims, WholeFiles
<1>10. NothingLost'
      BY <1>1 DEF FilesClaims, NothingLost, Installed
<1> QED
  BY <1>6, <1>7, <1>8, <1>9, <1>10 DEF FilesClaims

LEMMA FilesLinkFile ==
  ASSUME TypesInv, FilesClaims, LinkFile
  PROVE  FilesClaims'
<1>1. UNCHANGED <<calls, at, levels, next_file_number, external>> /\ job.pc = "link" /\ job.infos # <<>> /\ job.ok
      BY DEF LinkFile, dbVars, TypesInv, JobClaims
<1>2. /\ job' \in Jobs /\ internal \subseteq internal'
      /\ \/ /\ job'.pc = "unprepare" /\ ~job'.ok /\ job'.infos = job.infos /\ job'.i = job.i
            /\ \A f \in internal' : f \in internal \/ f.state = "partial"
         \/ /\ job'.infos = [job.infos EXCEPT ![job.i].inside = TRUE] /\ job'.ok = job.ok
            /\ internal' = internal \cup {[num |-> Info.num, of |-> Info.name, state |-> "whole"]}
            /\ \/ job.i < Len(job.infos) /\ job'.pc = "link" /\ job'.i = job.i + 1
               \/ job.i = Len(job.infos) /\ job'.pc = "sync" /\ job'.i = job.i
      BY LinkFileJob
<1>3. /\ job.infos \in Seq(Infos) /\ job.i \in 1 .. Len(job.infos) /\ Len(job.infos) \in Nat
      /\ DOMAIN job.infos = 1 .. Len(job.infos)
      BY <1>1, JobType
<1>4. /\ DOMAIN job'.infos = DOMAIN job.infos
      /\ \A j \in DOMAIN job.infos :
           job'.infos[j].name = job.infos[j].name /\ job'.infos[j].num = job.infos[j].num
      /\ \A j \in DOMAIN job.infos : job.infos[j].inside => job'.infos[j].inside
  <2>1. CASE job'.infos = job.infos
        BY <2>1
  <2>2. CASE job'.infos = [job.infos EXCEPT ![job.i].inside = TRUE]
    <3>1. /\ DOMAIN job'.infos = DOMAIN job.infos
          /\ \A j \in DOMAIN job.infos :
               job'.infos[j].name = job.infos[j].name /\ job'.infos[j].num = job.infos[j].num
          /\ job'.infos[job.i].inside
          /\ \A j \in DOMAIN job.infos : j # job.i => job'.infos[j] = job.infos[j]
          BY <1>3, <2>2, InfoInside
    <3> QED
          BY <3>1
  <2> QED
        BY <1>2, <2>1, <2>2
<1>5. ~Logged /\ ~Logged'
      BY <1>1, <1>2 DEF Logged
<1>6. FileNumbers'
      BY <1>1, <1>4, <1>5 DEF FilesClaims, FileNumbers
<1>7. \A j \in DOMAIN job.infos : job.infos[j].inside <=> j < job.i
      BY <1>1 DEF FilesClaims, JobFiles
<1>8. \A j \in DOMAIN job.infos : job.infos[j].inside =>
        [num |-> job.infos[j].num, of |-> job.infos[j].name, state |-> "whole"] \in internal
      BY <1>1 DEF FilesClaims, JobFiles
<1>9. JobFiles' /\ WholeFiles'
  <2>1. CASE /\ job'.pc = "unprepare" /\ ~job'.ok /\ job'.infos = job.infos
             /\ \A f \in internal' : f \in internal \/ f.state = "partial"
    <3>1. JobFiles'
          BY <2>1 DEF JobFiles, AllLinked, Logged
    <3>2. WholeFiles'
          BY <1>1, <2>1 DEF FilesClaims, WholeFiles
    <3> QED
          BY <3>1, <3>2
  <2>2. CASE /\ job'.infos = [job.infos EXCEPT ![job.i].inside = TRUE] /\ job'.ok = job.ok
             /\ internal' = internal \cup {[num |-> Info.num, of |-> Info.name, state |-> "whole"]}
             /\ \/ job.i < Len(job.infos) /\ job'.pc = "link" /\ job'.i = job.i + 1
                \/ job.i = Len(job.infos) /\ job'.pc = "sync" /\ job'.i = job.i
    <3>1. /\ job'.infos[job.i].inside
          /\ \A j \in DOMAIN job.infos : j # job.i => job'.infos[j] = job.infos[j]
          BY <1>3, <2>2, InfoInside
    <3>2. Info = job.infos[job.i]
          BY DEF Info
    <3>3. [num |-> Info.num, of |-> Info.name, state |-> "whole"] \in internal'
          BY <2>2
    <3>4. \A j \in DOMAIN job'.infos : job'.infos[j].inside <=> j <= job.i
          BY <1>3, <1>4, <1>7, <3>1
    <3>5. \A j \in DOMAIN job'.infos : job'.infos[j].inside =>
            [num |-> job'.infos[j].num, of |-> job'.infos[j].name, state |-> "whole"] \in internal'
      <4> SUFFICES ASSUME NEW j \in DOMAIN job.infos, job'.infos[j].inside
                   PROVE  [num |-> job.infos[j].num, of |-> job.infos[j].name, state |-> "whole"] \in internal'
          BY <1>4
      <4>1. CASE j = job.i
            BY <3>2, <3>3, <4>1
      <4>2. CASE j # job.i
            BY <1>2, <1>8, <3>1, <4>2
      <4> QED
            BY <4>1, <4>2
    <3>6. job'.pc = "link" => \A j \in DOMAIN job'.infos : job'.infos[j].inside <=> j < job'.i
      <4> SUFFICES ASSUME job'.pc = "link", NEW j \in DOMAIN job'.infos
                   PROVE  job'.infos[j].inside <=> j < job'.i
          OBVIOUS
      <4>1. job'.i = job.i + 1 /\ j \in Nat /\ job.i \in Nat
            BY <1>3, <1>4, <2>2
      <4> QED
            BY <3>4, <4>1
    <3>7. job'.pc = "sync" => \A j \in DOMAIN job'.infos : job'.infos[j].inside
          BY <1>3, <1>4, <2>2, <3>4
    <3>8. JobFiles'
          BY <2>2, <3>5, <3>6, <3>7 DEF JobFiles, AllLinked, Logged
    <3>9. WholeFiles'
      <4> SUFFICES ASSUME NEW f \in internal', f.state = "whole"
                   PROVE  \/ \E l \in Levels : \E m \in levels[l] : m.num = f.num
                          \/ \E j \in DOMAIN job'.infos : job'.infos[j].inside /\ job'.infos[j].num = f.num
          BY <1>1 DEF WholeFiles
      <4>1. CASE f \in internal
            BY <1>4, <4>1 DEF FilesClaims, WholeFiles
      <4>2. CASE f = [num |-> Info.num, of |-> Info.name, state |-> "whole"]
        <5>1. f.num = job'.infos[job.i].num /\ job.i \in DOMAIN job'.infos
              BY <1>3, <1>4, <3>2, <4>2
        <5> QED
              BY <3>1, <5>1
      <4> QED
            BY <2>2, <4>1, <4>2
    <3> QED
          BY <3>8, <3>9
  <2> QED
        BY <1>2, <2>1, <2>2
<1>10. JobInstalled'
      BY <1>5 DEF JobInstalled
<1>11. NothingLost'
      BY <1>1, <1>2 DEF FilesClaims, NothingLost, Installed
<1> QED
  BY <1>6, <1>9, <1>10, <1>11 DEF FilesClaims

\* When a job that failed deletes its files, those of the levels stay.
LEMMA OthersStay ==
  ASSUME TypesInv, FilesClaims, ~Logged, DeleteInside, UNCHANGED levels, external' = external
  PROVE  /\ NothingLost'
         /\ \A f \in internal' : f.state = "whole" =>
              \E l \in Levels : \E m \in levels[l] : m.num = f.num
<1>1. /\ \A f \in internal' : f.state = "whole" =>
           f \in internal /\ \A j \in DOMAIN job.infos : job.infos[j].inside => job.infos[j].num # f.num
      /\ \A f \in internal : (\A j \in DOMAIN job.infos : job.infos[j].num # f.num) => f \in internal'
      BY InsideDeleted
<1>2. \A l \in Levels : \A m \in levels[l] : \A f \in internal : f.num = m.num => f \in internal'
      BY <1>1 DEF FilesClaims, FileNumbers
<1>3. NothingLost'
      BY <1>2 DEF FilesClaims, NothingLost, Installed
<1>4. \A f \in internal' : f.state = "whole" =>
        \E l \in Levels : \E m \in levels[l] : m.num = f.num
      BY <1>1 DEF FilesClaims, WholeFiles
<1> QED
  BY <1>3, <1>4

LEMMA FilesPrepareFails ==
  ASSUME TypesInv, FilesClaims, PrepareFails
  PROVE  FilesClaims'
<1>1. /\ UNCHANGED <<calls, at, levels, next_file_number, external>> /\ job.pc = "unprepare" /\ DeleteInside
      /\ job' = [job EXCEPT !.pc = "cleanup"]
      BY DEF PrepareFails, dbVars
<1>2. ~job.ok
      BY <1>1 DEF TypesInv, JobClaims
<1>3. job'.infos = job.infos /\ job'.pc = "cleanup" /\ ~job'.ok
      BY <1>1, <1>2, JobType DEF Jobs
<1>4. ~Logged /\ ~Logged' /\ ~AllLinked'
      BY <1>2, <1>3 DEF Logged, AllLinked
<1>5. /\ NothingLost'
      /\ \A f \in internal' : f.state = "whole" =>
           \E l \in Levels : \E m \in levels[l] : m.num = f.num
      BY <1>1, <1>4, OthersStay
<1>6. FileNumbers'
      BY <1>1, <1>3, <1>4 DEF FilesClaims, FileNumbers
<1>7. JobFiles'
      BY <1>3, <1>4 DEF JobFiles
<1>8. JobInstalled'
      BY <1>4 DEF JobInstalled
<1>9. WholeFiles'
      BY <1>1, <1>5 DEF WholeFiles
<1> QED
  BY <1>5, <1>6, <1>7, <1>8, <1>9 DEF FilesClaims

LEMMA FilesInstall ==
  ASSUME TypesInv, FilesClaims, JobLevels, Install
  PROVE  FilesClaims'
<1>1. UNCHANGED <<calls, at, memtable, next_file_number, external, internal>>
      BY DEF Install
<1>2. /\ job.pc = "install" /\ job.ok /\ job.infos # <<>> /\ at \in DOMAIN calls
      /\ job' \in Jobs /\ job'.pc = "cleanup" /\ job'.infos = job.infos /\ job'.i = job.i
      /\ \/ job'.ok /\ levels' = [l \in Levels |-> levels[l] \cup AddedFiles(l)]
         \/ ~job'.ok /\ levels' = levels
      BY InstallJob
<1>3. CASE ~job'.ok /\ levels' = levels
  <2>1. next_file_number \in Nat
        BY TypesParts
  <2>2. Quiet
        BY <1>1, <1>2, <1>3, <2>1 DEF Quiet, Logged, AllLinked
  <2> QED
        BY <2>2, FilesQuiet
<1>4. CASE job'.ok /\ levels' = [l \in Levels |-> levels[l] \cup AddedFiles(l)]
  <2>1. AllLinked /\ ~Logged /\ Logged' /\ Call' = Call
        BY <1>1, <1>2, <1>4 DEF AllLinked, Logged, Call
  <2>2. \A l \in Levels : levels'[l] = levels[l] \cup AddedFiles(l)
        BY <1>4
  <2>3. \A l \in Levels : \A m \in AddedFiles(l) : \E j \in DOMAIN job.infos :
          m.num = job.infos[j].num /\ m.from = job.infos[j].name
        BY <1>2, AddedType
  <2>4. \A j \in DOMAIN job.infos :
          [num |-> job.infos[j].num, of |-> job.infos[j].name, state |-> "whole"] \in internal
        BY <1>2, <2>1 DEF FilesClaims, JobFiles
  <2>5. FileNumbers'
    <3>1. \A l \in Levels : \A m \in levels'[l] : m.num < next_file_number
          BY <2>2, <2>3 DEF FilesClaims, FileNumbers
    <3> QED
          BY <1>1, <1>2, <2>1, <3>1 DEF FilesClaims, FileNumbers
  <2>6. JobFiles'
        BY <1>1, <1>2, <2>1, <2>4 DEF FilesClaims, JobFiles
  <2>7. JobInstalled'
    <3>1. ASSUME NEW j \in DOMAIN job.infos
          PROVE  \E m \in levels'[Call.external_level] :
                   /\ m.num = job.infos[j].num /\ m.from = job.infos[j].name
                   /\ m.path = job.infos[j].path
                   /\ DOMAIN m.seq = ExtFile[job.infos[j].name].keys
      <4> DEFINE f == job.infos[j]
                 m == [num |-> f.num, path |-> f.path, from |-> f.name,
                       seq |-> [k \in ExtFile[f.name].keys |-> f.seqno]]
      <4>1. f.level = Call.external_level /\ Call.external_level \in Levels
            BY <1>2, CallType DEF JobLevels
      <4>2. m \in AddedFiles(Call.external_level)
            BY <4>1 DEF AddedFiles
      <4>3. /\ m.num = f.num /\ m.from = f.name /\ m.path = f.path
            /\ DOMAIN m.seq = ExtFile[f.name].keys
            OBVIOUS
      <4> HIDE DEF m
      <4> QED
            BY <2>2, <4>1, <4>2, <4>3
    <3> QED
          BY <1>2, <2>1, <3>1 DEF JobInstalled
  <2>8. WholeFiles'
    <3>1. ASSUME NEW f \in internal, f.state = "whole"
          PROVE  \/ \E l \in Levels : \E m \in levels'[l] : m.num = f.num
                 \/ \E j \in DOMAIN job.infos : job.infos[j].inside /\ job.infos[j].num = f.num
          BY <2>2, <3>1 DEF FilesClaims, WholeFiles
    <3> QED
          BY <1>1, <1>2, <3>1 DEF WholeFiles
  <2>9. NothingLost'
    <3>1. ASSUME NEW n \in Files, n \notin external
          PROVE  Installed(n)'
      <4>1. Installed(n)
            BY <3>1 DEF FilesClaims, NothingLost
      <4> QED
            BY <1>1, <2>2, <4>1 DEF Installed
    <3>2. ASSUME NEW l \in Levels, NEW m \in levels'[l], m.from # Workload
          PROVE  \E f \in internal : f.num = m.num /\ f.state = "whole"
      <4>1. CASE m \in levels[l]
            BY <3>2, <4>1 DEF FilesClaims, NothingLost
      <4>2. CASE m \in AddedFiles(l)
        <5>1. PICK j \in DOMAIN job.infos : m.num = job.infos[j].num
              BY <2>3, <4>2
        <5> DEFINE f == [num |-> job.infos[j].num, of |-> job.infos[j].name, state |-> "whole"]
        <5>2. f \in internal /\ f.num = m.num /\ f.state = "whole"
              BY <2>4, <5>1
        <5> QED
              BY <5>2
      <4> QED
            BY <2>2, <4>1, <4>2
    <3> QED
          BY <1>1, <3>1, <3>2 DEF NothingLost
  <2> QED
        BY <2>5, <2>6, <2>7, <2>8, <2>9 DEF FilesClaims
<1> QED
  BY <1>2, <1>3, <1>4

LEMMA FilesCleanup ==
  ASSUME TypesInv, FilesClaims, Cleanup
  PROVE  FilesClaims'
<1>1. /\ job.pc = "cleanup" /\ job' \in Jobs /\ job'.infos = <<>>
      /\ UNCHANGED <<calls, levels, next_file_number>>
      /\ \/ job.ok /\ job'.pc = "idle" /\ internal' = internal
         \/ ~job.ok /\ job'.pc = "exited" /\ DeleteInside
      /\ external' \subseteq external
      /\ \A n \in external \ external' : job.ok /\ \E j \in DOMAIN job.infos : n = job.infos[j].name
      BY CleanupJob
<1>2. ~Logged'
      BY <1>1 DEF Logged
<1>3. FileNumbers'
      BY <1>1 DEF FilesClaims, FileNumbers
<1>4. JobFiles'
      BY <1>1, <1>2 DEF JobFiles, AllLinked
<1>5. JobInstalled'
      BY <1>2 DEF JobInstalled
<1>6. CASE ~job.ok
  <2>1. ~Logged /\ DeleteInside /\ external' = external
        BY <1>1, <1>6 DEF Logged
  <2>2. /\ NothingLost'
        /\ \A f \in internal' : f.state = "whole" =>
             \E l \in Levels : \E m \in levels[l] : m.num = f.num
        BY <1>1, <2>1, OthersStay
  <2>3. WholeFiles'
        BY <1>1, <2>2 DEF WholeFiles
  <2> QED
        BY <1>3, <1>4, <1>5, <2>2, <2>3 DEF FilesClaims
<1>7. CASE job.ok
  <2>1. Logged /\ AllLinked /\ internal' = internal /\ Call.external_level \in Levels
        BY <1>1, <1>7, CallType DEF Logged, AllLinked
  <2>2. \A j \in DOMAIN job.infos :
          [num |-> job.infos[j].num, of |-> job.infos[j].name, state |-> "whole"] \in internal
        BY <1>7, <2>1 DEF FilesClaims, JobFiles
  <2>3. \A j \in DOMAIN job.infos : \E m \in levels[Call.external_level] :
          m.num = job.infos[j].num /\ m.from = job.infos[j].name
        BY <2>1 DEF FilesClaims, JobInstalled
  <2>4. WholeFiles'
    <3>1. ASSUME NEW f \in internal, f.state = "whole"
          PROVE  \E l \in Levels : \E m \in levels[l] : m.num = f.num
          BY <2>1, <2>3, <3>1 DEF FilesClaims, WholeFiles
    <3> QED
          BY <1>1, <2>1, <3>1 DEF WholeFiles
  <2>5. \A j \in DOMAIN job.infos : Installed(job.infos[j].name)
    <3> SUFFICES ASSUME NEW j \in DOMAIN job.infos
                 PROVE  Installed(job.infos[j].name)
        OBVIOUS
    <3>1. PICK m \in levels[Call.external_level] : m.num = job.infos[j].num /\ m.from = job.infos[j].name
          BY <2>3
    <3> DEFINE f == [num |-> job.infos[j].num, of |-> job.infos[j].name, state |-> "whole"]
    <3>2. f \in internal /\ f.num = m.num /\ f.of = job.infos[j].name /\ f.state = "whole"
          BY <2>2, <3>1
    <3> HIDE DEF f
    <3> QED
          BY <2>1, <3>1, <3>2 DEF Installed
  <2>6. NothingLost'
    <3>1. \A n \in Files : n \in external' \/ Installed(n)
          BY <1>1, <2>5 DEF FilesClaims, NothingLost
    <3>2. \A n \in Files : Installed(n) => Installed(n)'
          BY <1>1, <2>1 DEF Installed
    <3>3. \A l \in Levels : \A m \in levels'[l] :
            m.from # Workload => \E f \in internal' : f.num = m.num /\ f.state = "whole"
          BY <1>1, <2>1 DEF FilesClaims, NothingLost
    <3> QED
          BY <3>1, <3>2, <3>3 DEF NothingLost
  <2> QED
        BY <1>3, <1>4, <1>5, <2>4, <2>6 DEF FilesClaims
<1> QED
  BY <1>6, <1>7

LEMMA LevelsStep == TypesInv /\ JobLevels /\ [IngestNext]_ingestVars => JobLevels'
<1> SUFFICES ASSUME TypesInv, JobLevels, [IngestNext]_ingestVars
             PROVE  JobLevels'
    OBVIOUS
<1>1. CASE (\E k \in Keys : Put(k)) \/ Flush \/ UNCHANGED ingestVars
  <2>1. UNCHANGED <<calls, at, job>>
        BY <1>1 DEF Put, Flush, ingestVars
  <2> QED
        BY <2>1 DEF JobLevels, Call
<1>2. CASE NeedsFlush \/ FlushForJob
  <2>1. \/ StartRun /\ job.pc \in {"needs_flush", "flush"}
        \/ job' = [job EXCEPT !.pc = "flush"]
        \/ job' = [job EXCEPT !.pc = "cleanup", !.ok = FALSE]
        BY <1>2 DEF NeedsFlush, FlushForJob
  <2>2. CASE StartRun /\ job.pc \in {"needs_flush", "flush"}
    <3>1. job'.pc = "run" /\ job'.i = 1 /\ job' \in Jobs
          BY <2>2, StartRunJob
    <3>2. \A j \in DOMAIN job'.infos : j \in Nat /\ j >= 1
          BY <3>1 DEF Jobs
    <3> QED
          BY <3>1, <3>2 DEF JobLevels
  <2>3. CASE job' = [job EXCEPT !.pc = "flush"] \/ job' = [job EXCEPT !.pc = "cleanup", !.ok = FALSE]
    <3>1. job'.pc \notin {"run", "install"}
          BY <2>3, JobType DEF Jobs
    <3> QED
          BY <3>1 DEF JobLevels
  <2> QED
        BY <2>1, <2>2, <2>3
<1>3. CASE RunFile
  <2>1. UNCHANGED <<calls, at>> /\ job.pc = "run"
        BY <1>3 DEF RunFile
  <2>2. Call' = Call
        BY <2>1 DEF Call
  <2>3. /\ DOMAIN job'.infos = DOMAIN job.infos
        /\ \/ job'.pc = "cleanup"
           \/ /\ job'.infos[job.i].level = Call.external_level
              /\ \A j \in DOMAIN job.infos : j # job.i => job'.infos[j] = job.infos[j]
              /\ \/ job'.pc = "run" /\ job'.i = job.i + 1
                 \/ job.i = Len(job.infos) /\ job'.pc = "install"
    <3>1. DOMAIN job'.infos = DOMAIN job.infos
          BY <1>3, RunFileJob
    <3> QED
          BY <1>3, <3>1, RunFileJob
  <2>4. job.infos # <<>>
        BY <2>1 DEF TypesInv, JobClaims, AllLinked
  <2>5. /\ DOMAIN job.infos = 1 .. Len(job.infos) /\ Len(job.infos) \in Nat
        /\ job.i \in 1 .. Len(job.infos)
        BY <2>4, JobType
  <2>6. \A j \in DOMAIN job.infos : j < job.i => job.infos[j].level = Call.external_level
        BY <2>1 DEF JobLevels
  <2>7. ASSUME job'.pc # "cleanup", NEW j \in DOMAIN job.infos, j <= job.i
        PROVE  job'.infos[j].level = Call.external_level
    <3>1. j = job.i \/ j < job.i
          BY <2>5, <2>7
    <3> QED
          BY <2>3, <2>5, <2>6, <2>7, <3>1
  <2>8. ASSUME job'.pc = "run", NEW j \in DOMAIN job.infos, j < job'.i
        PROVE  j <= job.i
        BY <2>3, <2>5, <2>8
  <2>9. ASSUME job'.pc = "install", NEW j \in DOMAIN job.infos
        PROVE  j <= job.i
        BY <2>3, <2>5, <2>9
  <2> QED
        BY <2>2, <2>3, <2>7, <2>8, <2>9 DEF JobLevels
<1>4. CASE job'.pc \notin {"run", "install"}
      BY <1>4 DEF JobLevels
<1> QED
  BY <1>1, <1>2, <1>3, <1>4, JobMoves

LEMMA FilesInit == IngestInit => FilesInv
<1> SUFFICES ASSUME IngestInit
             PROVE  FilesInv
    OBVIOUS
<1>1. /\ \A l \in Levels : levels[l] = {}
      /\ external = Files /\ internal = {} /\ job.infos = <<>> /\ job.pc = "idle"
      BY DEF IngestInit, NoJob
<1> QED
  BY <1>1 DEF FilesInv, FileNumbers, JobFiles, JobLevels, JobInstalled, WholeFiles, NothingLost,
              Logged, AllLinked

LEMMA FilesStep == TypesInv /\ FilesInv /\ [IngestNext]_ingestVars => FilesInv'
<1> SUFFICES ASSUME TypesInv, FilesInv, [IngestNext]_ingestVars
             PROVE  FilesInv'
    OBVIOUS
<1>1. FilesClaims /\ JobLevels
      BY DEF FilesInv, FilesClaims
<1>2. FilesClaims'
      BY <1>1, QuietSteps, FilesQuiet, FilesReadInfos, FilesLinkFile, FilesPrepareFails,
         FilesInstall, FilesCleanup DEF IngestNext
<1>3. JobLevels'
      BY <1>1, LevelsStep
<1> QED
  BY <1>2, <1>3 DEF FilesInv, FilesClaims

LEMMA FilesAlways == IngestSpec => []FilesInv
<1>1. QED
  BY FilesInit, FilesStep, TypesAlways, PTL DEF IngestSpec

\* Whatever fails, and however the workload's flushes interleave, the data of
\* every SSTable stays reachable, and a level lists only files that are there.
THEOREM NothingLostCorrect == IngestSpec => []NothingLost
<1>1. FilesInv => NothingLost
      BY DEF FilesInv
<1> QED
  BY <1>1, FilesAlways, PTL

\* Between calls, a whole file of the database's directories is in a level: what
\* a failed job had linked is deleted, or known not to be.
THEOREM NoLeftoversCorrect == IngestSpec => []NoLeftovers
<1>1. TypesInv /\ FilesInv => NoLeftovers
      BY DEF TypesInv, JobClaims, FilesInv, WholeFiles, NoLeftovers
<1> QED
  BY <1>1, FilesAlways, TypesAlways, PTL

-------------------------------------------------------------------------------
(* The sequence numbers *)

PutEntry(k) == [from |-> Workload, seq |-> memtable[k]]
FileEntry(m, k) == [from |-> m.from, seq |-> m.seq[k]]

LEMMA EntriesOf ==
  ASSUME NEW k \in Keys, NEW e
  PROVE  e \in Entries(k) <=>
           \/ e = PutEntry(k) /\ memtable[k] # 0
           \/ \E l \in Levels : \E m \in levels[l] : k \in DOMAIN m.seq /\ e = FileEntry(m, k)
BY DEF Entries, FilesWith, PutEntry, FileEntry

\* The numbers of the entries are numbers already given.
SeqnosBounded ==
  /\ \A k \in Keys : memtable[k] <= last_sequence
  /\ \A l \in Levels : \A m \in levels[l] : \A k \in DOMAIN m.seq : m.seq[k] <= last_sequence

LEMMA EntryBounds ==
  ASSUME TypesInv, SeqnosBounded, NEW k \in Keys, NEW e \in Entries(k)
  PROVE  e.seq \in Nat /\ e.seq <= last_sequence
<1>1. CASE e = PutEntry(k) /\ memtable[k] # 0
  <2>1. e.seq = memtable[k]
        BY <1>1 DEF PutEntry
  <2> QED
        BY <2>1, TypesParts DEF SeqnosBounded
<1>2. CASE \E l \in Levels : \E m \in levels[l] : k \in DOMAIN m.seq /\ e = FileEntry(m, k)
  <2>0. PICK l \in Levels : \E m \in levels[l] : k \in DOMAIN m.seq /\ e = FileEntry(m, k)
        BY <1>2
  <2>1. PICK m \in levels[l] : k \in DOMAIN m.seq /\ e = FileEntry(m, k)
        BY <2>0
  <2>2. e.seq = m.seq[k]
        BY <2>1 DEF FileEntry
  <2>3. m.seq \in [DOMAIN m.seq -> Nat]
        BY <2>1, TypesParts DEF LevelTypes
  <2> QED
        BY <2>1, <2>2, <2>3 DEF SeqnosBounded
<1> QED
  BY <1>1, <1>2, EntriesOf

\* A Put replaces the entry of the memtable.
LEMMA EntriesPut ==
  ASSUME TypesInv, NEW p \in Keys, Put(p), NEW k \in Keys, NEW e \in Entries(k)'
  PROVE  e \in Entries(k) \/ (k = p /\ e = [from |-> Workload, seq |-> last_sequence + 1])
<1>1. levels' = levels /\ memtable' = [memtable EXCEPT ![p] = last_sequence + 1] /\ memtable \in [Keys -> Nat]
      BY TypesParts DEF Put
<1>2. \/ e = PutEntry(k)' /\ memtable'[k] # 0
      \/ \E l \in Levels : \E m \in levels[l] : k \in DOMAIN m.seq /\ e = FileEntry(m, k)
      BY <1>1 DEF Entries, FilesWith, PutEntry, FileEntry
<1>3. k # p => PutEntry(k)' = PutEntry(k) /\ memtable'[k] = memtable[k]
      BY <1>1 DEF PutEntry
<1>4. k = p => PutEntry(k)' = [from |-> Workload, seq |-> last_sequence + 1]
      BY <1>1 DEF PutEntry
<1> QED
  BY <1>2, <1>3, <1>4, EntriesOf

\* A flush moves entries, and makes none.
LEMMA EntriesFlush ==
  ASSUME TypesInv, FlushMemtable, NEW k \in Keys, NEW e \in Entries(k)'
  PROVE  e \in Entries(k)
<1>1. /\ memtable' = [j \in Keys |-> 0]
      /\ \A l \in Levels : \A m \in levels'[l] \ levels[l] :
           /\ m.from = Workload /\ DOMAIN m.seq = {j \in Keys : memtable[j] > 0}
           /\ \A j \in DOMAIN m.seq : m.seq[j] = memtable[j]
      BY FlushedFile
<1>a. PICK l \in Levels : \E m \in levels'[l] : k \in DOMAIN m.seq /\ e = FileEntry(m, k)
      BY <1>1 DEF Entries, FilesWith, FileEntry
<1>2. PICK m \in levels'[l] : k \in DOMAIN m.seq /\ e = FileEntry(m, k)
      BY <1>a
<1>3. CASE m \in levels[l]
      BY <1>2, <1>3, EntriesOf
<1>4. CASE m \notin levels[l]
  <2>1. m.from = Workload /\ m.seq[k] = memtable[k] /\ memtable[k] > 0
        BY <1>1, <1>2, <1>4
  <2>2. e = PutEntry(k)
        BY <1>2, <2>1 DEF FileEntry, PutEntry
  <2>3. memtable[k] # 0
        BY <2>1, TypesParts
  <2> QED
        BY <2>2, <2>3, EntriesOf
<1> QED
  BY <1>3, <1>4

\* The job adds the entries of its files.
LEMMA EntriesInstall ==
  ASSUME TypesInv, Install, NEW k \in Keys, NEW e \in Entries(k)'
  PROVE  \/ e \in Entries(k)
         \/ \E j \in DOMAIN job.infos : e = [from |-> job.infos[j].name, seq |-> job.infos[j].seqno]
<1>1. /\ memtable' = memtable /\ job.infos # <<>>
      /\ \/ levels' = [l \in Levels |-> levels[l] \cup AddedFiles(l)]
         \/ levels' = levels
      BY InstallJob DEF Install
<1>2. \/ e = PutEntry(k) /\ memtable[k] # 0
      \/ \E l \in Levels : \E m \in levels'[l] : k \in DOMAIN m.seq /\ e = FileEntry(m, k)
      BY <1>1 DEF Entries, FilesWith, PutEntry, FileEntry
<1>3. ASSUME NEW l \in Levels, NEW m \in levels'[l], k \in DOMAIN m.seq, e = FileEntry(m, k)
      PROVE  \/ e \in Entries(k)
             \/ \E j \in DOMAIN job.infos : e = [from |-> job.infos[j].name, seq |-> job.infos[j].seqno]
  <2>1. CASE m \in levels[l]
        BY <1>3, <2>1, EntriesOf
  <2>2. CASE m \in AddedFiles(l)
    <3>1. PICK j \in DOMAIN job.infos :
            m.from = job.infos[j].name /\ m.seq[k] = job.infos[j].seqno
          BY <1>1, <1>3, <2>2, AddedType
    <3> QED
          BY <1>3, <3>1 DEF FileEntry
  <2> QED
        BY <1>1, <1>3, <2>1, <2>2
<1> QED
  BY <1>2, <1>3, EntriesOf

LEMMA SeqnosInit == IngestInit => SeqnosInv
<1> SUFFICES ASSUME IngestInit
             PROVE  SeqnosInv
    OBVIOUS
<1>1. /\ memtable = [k \in Keys |-> 0] /\ levels = [l \in Levels |-> {}] /\ last_sequence = 0
      /\ job.infos = <<>> /\ job.pc = "idle" /\ job.consumed = 0
      BY DEF IngestInit, NoJob
<1>2. SeqnosDistinct
      BY <1>1 DEF SeqnosDistinct, Entries, FilesWith
<1>3. JobSeqnos
      BY <1>1 DEF JobSeqnos
<1> QED
  BY <1>1, <1>2, <1>3 DEF SeqnosInv

\* The entries keep their numbers apart.
LEMMA EntriesStep ==
  ASSUME TypesInv, SeqnosInv,
         \/ (\E k \in Keys : Put(k)) \/ Install
         \/ FlushMemtable /\ UNCHANGED last_sequence
  PROVE  SeqnosBounded' /\ SeqnosDistinct'
<1>1. SeqnosBounded /\ SeqnosDistinct /\ JobSeqnos
      BY DEF SeqnosInv, SeqnosBounded
<1>2. last_sequence \in Nat /\ memtable \in [Keys -> Nat]
      BY TypesParts
<1>3. ASSUME NEW p \in Keys, Put(p)
      PROVE  SeqnosBounded' /\ SeqnosDistinct'
  <2>1. /\ levels' = levels /\ last_sequence' = last_sequence + 1
        /\ memtable' = [memtable EXCEPT ![p] = last_sequence + 1]
        BY <1>3 DEF Put
  <2>2. \A k \in Keys : memtable'[k] <= last_sequence'
        BY <1>1, <1>2, <2>1 DEF SeqnosBounded
  <2>3. \A l \in Levels : \A m \in levels[l] : \A k \in DOMAIN m.seq : m.seq[k] \in Nat
        BY TypesParts DEF LevelTypes
  <2>4. \A l \in Levels : \A m \in levels[l] : \A k \in DOMAIN m.seq : m.seq[k] <= last_sequence'
        BY <1>1, <1>2, <2>1, <2>3 DEF SeqnosBounded
  <2>5. ASSUME NEW k \in Keys, NEW a \in Entries(k)', NEW b \in Entries(k)', a.seq = b.seq, a.seq > 0
        PROVE  a = b
    <3>1. \A e \in Entries(k) : e.seq # last_sequence + 1
          BY <1>1, <1>2, EntryBounds
    <3>2. /\ a \in Entries(k) \/ a = [from |-> Workload, seq |-> last_sequence + 1]
          /\ b \in Entries(k) \/ b = [from |-> Workload, seq |-> last_sequence + 1]
          BY <1>3, EntriesPut
    <3>3. CASE a \in Entries(k) /\ b \in Entries(k)
          BY <1>1, <2>5, <3>3 DEF SeqnosDistinct
    <3> QED
          BY <2>5, <3>1, <3>2, <3>3
  <2> QED
        BY <2>1, <2>2, <2>4, <2>5 DEF SeqnosBounded, SeqnosDistinct
<1>4. ASSUME FlushMemtable, UNCHANGED last_sequence
      PROVE  SeqnosBounded' /\ SeqnosDistinct'
  <2>1. /\ memtable' = [j \in Keys |-> 0]
        /\ \A l \in Levels : \A m \in levels'[l] \ levels[l] :
             /\ DOMAIN m.seq = {j \in Keys : memtable[j] > 0}
             /\ \A j \in DOMAIN m.seq : m.seq[j] = memtable[j]
        BY <1>4, FlushedFile
  <2>2. \A k \in Keys : memtable'[k] <= last_sequence
        BY <1>2, <2>1
  <2>3. \A l \in Levels : \A m \in levels'[l] : \A k \in DOMAIN m.seq : m.seq[k] <= last_sequence
        BY <1>1, <2>1 DEF SeqnosBounded
  <2>4. SeqnosDistinct'
        BY <1>1, <1>4, EntriesFlush DEF SeqnosDistinct
  <2> QED
        BY <1>4, <2>2, <2>3, <2>4 DEF SeqnosBounded
<1>5. ASSUME Install
      PROVE  SeqnosBounded' /\ SeqnosDistinct'
  <2>1. /\ job.pc = "install" /\ job.infos # <<>> /\ memtable' = memtable
        /\ last_sequence' = last_sequence + job.consumed /\ job.consumed \in Nat
        /\ \/ levels' = [l \in Levels |-> levels[l] \cup AddedFiles(l)]
           \/ levels' = levels
        BY <1>5, InstallJob DEF Install
  <2>2. \A j \in DOMAIN job.infos : job.infos[j].seqno \in Nat
        BY JobType DEF Infos
  <2>3. /\ \A j \in DOMAIN job.infos :
             /\ job.infos[j].seqno <= last_sequence'
             /\ job.infos[j].seqno = 0 \/ last_sequence < job.infos[j].seqno
        /\ \A i, j \in DOMAIN job.infos :
             i # j /\ job.infos[i].seqno = job.infos[j].seqno => job.infos[i].seqno = 0
        BY <1>1, <2>1 DEF JobSeqnos
  <2>4. \A k \in Keys : memtable'[k] <= last_sequence'
        BY <1>1, <1>2, <2>1 DEF SeqnosBounded
  <2>5. ASSUME NEW l \in Levels, NEW m \in levels'[l], NEW k \in DOMAIN m.seq
        PROVE  m.seq[k] <= last_sequence'
    <3>1. CASE m \in levels[l]
      <4>1. m.seq[k] \in Nat /\ m.seq[k] <= last_sequence
            BY <1>1, <3>1, TypesParts DEF LevelTypes, SeqnosBounded
      <4> QED
            BY <1>2, <2>1, <4>1
    <3>2. CASE m \in AddedFiles(l)
          BY <2>1, <2>3, <3>2, AddedType
    <3> QED
          BY <2>1, <3>1, <3>2
  <2>6. ASSUME NEW k \in Keys, NEW a \in Entries(k)', NEW b \in Entries(k)', a.seq = b.seq, a.seq > 0
        PROVE  a = b
    <3>1. \A e \in Entries(k) : e.seq \in Nat /\ e.seq <= last_sequence
          BY <1>1, EntryBounds
    <3>2. /\ a \in Entries(k) \/ \E j \in DOMAIN job.infos :
                 a = [from |-> job.infos[j].name, seq |-> job.infos[j].seqno]
          /\ b \in Entries(k) \/ \E j \in DOMAIN job.infos :
                 b = [from |-> job.infos[j].name, seq |-> job.infos[j].seqno]
          BY <1>5, EntriesInstall
    <3>3. CASE a \in Entries(k) /\ b \in Entries(k)
          BY <1>1, <2>6, <3>3 DEF SeqnosDistinct
    <3>4. ASSUME NEW j \in DOMAIN job.infos, NEW e \in Entries(k), e.seq = job.infos[j].seqno
          PROVE  e.seq = 0
          BY <1>2, <2>2, <2>3, <3>1, <3>4
    <3>5. ASSUME NEW i \in DOMAIN job.infos, NEW j \in DOMAIN job.infos,
                 a = [from |-> job.infos[i].name, seq |-> job.infos[i].seqno],
                 b = [from |-> job.infos[j].name, seq |-> job.infos[j].seqno]
          PROVE  a = b
      <4>1. job.infos[i].seqno = job.infos[j].seqno /\ job.infos[i].seqno # 0
            BY <2>6, <3>5
      <4>2. i = j
            BY <2>3, <4>1
      <4> QED
            BY <3>5, <4>2
    <3>6. ASSUME NEW j \in DOMAIN job.infos,
                 a = [from |-> job.infos[j].name, seq |-> job.infos[j].seqno], b \in Entries(k)
          PROVE  FALSE
      <4>1. b.seq = job.infos[j].seqno /\ b.seq > 0
            BY <2>6, <3>6
      <4> QED
            BY <3>4, <3>6, <4>1
    <3>7. ASSUME NEW j \in DOMAIN job.infos,
                 b = [from |-> job.infos[j].name, seq |-> job.infos[j].seqno], a \in Entries(k)
          PROVE  FALSE
      <4>1. a.seq = job.infos[j].seqno /\ a.seq > 0
            BY <2>6, <3>7
      <4> QED
            BY <3>4, <3>7, <4>1
    <3> QED
          BY <3>2, <3>3, <3>5, <3>6, <3>7
  <2> QED
        BY <2>4, <2>5, <2>6 DEF SeqnosBounded, SeqnosDistinct
<1> QED
  BY <1>3, <1>4, <1>5

\* A step that leaves the numbers of the job alone.
LEMMA JobSeqnosKept ==
  ASSUME TypesInv, JobSeqnos, UNCHANGED last_sequence, job'.last = job.last, job'.consumed = job.consumed,
         DOMAIN job'.infos = DOMAIN job.infos,
         \A j \in DOMAIN job.infos : job'.infos[j].seqno = job.infos[j].seqno,
         job'.pc \notin {"run", "install", "cleanup"} => job.pc \notin {"run", "install", "cleanup"},
         job'.pc \in {"run", "install"} => job.pc \in {"run", "install"}
  PROVE  JobSeqnos'
BY DEF JobSeqnos

LEMMA JobSeqnosStep ==
  ASSUME TypesInv, SeqnosInv, [IngestNext]_ingestVars
  PROVE  JobSeqnos'
<1>0. JobSeqnos /\ last_sequence \in Nat /\ job \in Jobs
      BY TypesParts, JobType DEF SeqnosInv
<1>1. ASSUME NEW k \in Keys, Put(k)
      PROVE  JobSeqnos'
  <2>1. job' = job /\ job.pc \notin {"run", "install"}
        BY <1>1 DEF Put, WritesStopped
  <2> QED
        BY <1>0, <2>1 DEF JobSeqnos
<1>2. CASE Flush \/ UNCHANGED ingestVars
  <2>1. UNCHANGED <<last_sequence, job>>
        BY <1>2 DEF Flush, ingestVars
  <2> QED
        BY <1>0, <2>1 DEF JobSeqnos
<1>3. CASE ReadInfos
      BY <1>3, ReadInfosJob DEF JobSeqnos
<1>4. CASE LinkFile
  <2>1. UNCHANGED last_sequence /\ job.pc = "link" /\ job.infos # <<>>
        BY <1>4 DEF LinkFile, dbVars, TypesInv, JobClaims
  <2>2. /\ job.infos \in Seq(Infos) /\ job.i \in 1 .. Len(job.infos)
        BY <2>1, JobType
  <2>3. /\ job'.last = job.last /\ job'.consumed = job.consumed
        /\ job'.pc \in {"link", "sync", "unprepare"}
        /\ job'.infos = job.infos \/ job'.infos = [job.infos EXCEPT ![job.i].inside = TRUE]
        BY <1>4, LinkFileJob
  <2>4. /\ DOMAIN job'.infos = DOMAIN job.infos
        /\ \A j \in DOMAIN job.infos : job'.infos[j].seqno = job.infos[j].seqno
    <3>1. CASE job'.infos = job.infos
          BY <3>1
    <3>2. CASE job'.infos = [job.infos EXCEPT ![job.i].inside = TRUE]
          BY <2>2, <3>2, InfoInside
    <3> QED
          BY <2>3, <3>1, <3>2
  <2> QED
        BY <1>0, <2>1, <2>3, <2>4, JobSeqnosKept
<1>5. CASE SyncDirs \/ CheckChecksums \/ StopWrites \/ PrepareFails
  <2>1. UNCHANGED last_sequence /\ job.pc \in {"sync", "checksum", "prepared", "unprepare"}
        BY <1>5 DEF SyncDirs, CheckChecksums, StopWrites, PrepareFails, dbVars
  <2>2. /\ job'.last = job.last /\ job'.consumed = job.consumed /\ job'.infos = job.infos
        /\ job'.pc \in {"checksum", "prepared", "needs_flush", "unprepare", "cleanup"}
        BY <1>0, <1>5 DEF SyncDirs, CheckChecksums, StopWrites, PrepareFails, Jobs
  <2> QED
        BY <1>0, <2>1, <2>2, JobSeqnosKept
<1>6. CASE NeedsFlush \/ FlushForJob
  <2>1. /\ job.pc \in {"needs_flush", "flush"} /\ UNCHANGED last_sequence
        /\ \/ StartRun \/ job' = [job EXCEPT !.pc = "flush"]
           \/ job' = [job EXCEPT !.pc = "cleanup", !.ok = FALSE]
        BY <1>6 DEF NeedsFlush, FlushForJob, dbVars
  <2>2. job.consumed = 0 /\ \A j \in DOMAIN job.infos : job.infos[j].seqno = 0
        BY <1>0, <2>1 DEF JobSeqnos
  <2>3. CASE StartRun
    <3>1. /\ job'.pc = "run" /\ job'.infos = job.infos /\ job'.last = last_sequence
          /\ job'.consumed = job.consumed
          BY <2>1, <2>3, StartRunJob
    <3>2. job'.last = last_sequence' + job'.consumed
          BY <1>0, <2>1, <2>2, <3>1
    <3>3. \A j \in DOMAIN job'.infos : job'.infos[j].seqno = 0 /\ job'.infos[j].seqno <= job'.last
          BY <1>0, <2>2, <3>1
    <3> QED
          BY <3>1, <3>2, <3>3 DEF JobSeqnos
  <2>4. CASE job' = [job EXCEPT !.pc = "flush"] \/ job' = [job EXCEPT !.pc = "cleanup", !.ok = FALSE]
    <3>1. /\ job'.infos = job.infos /\ job'.consumed = job.consumed
          /\ job'.pc \in {"flush", "cleanup"}
          BY <1>0, <2>4 DEF Jobs
    <3> QED
          BY <2>2, <3>1 DEF JobSeqnos
  <2> QED
        BY <2>1, <2>3, <2>4
<1>7. CASE RunFile
  <2>1. UNCHANGED last_sequence /\ job.pc = "run" /\ job.infos # <<>>
        BY <1>7 DEF RunFile, dbVars, TypesInv, JobClaims, AllLinked
  <2>2. job.i \in DOMAIN job.infos /\ job.last \in Nat /\ job.consumed \in Nat
        BY <1>0, <2>1, JobType DEF Jobs
  <2>3. DOMAIN job'.infos = DOMAIN job.infos
        BY <1>7, RunFileJob
  <2>4. /\ \A j \in DOMAIN job.infos : job.infos[j].seqno \in Nat
        /\ job.last = last_sequence + job.consumed
        /\ \A j \in DOMAIN job.infos :
             /\ job.infos[j].seqno <= job.last
             /\ job.infos[j].seqno = 0 \/ last_sequence < job.infos[j].seqno
        /\ \A i, j \in DOMAIN job.infos :
             i # j /\ job.infos[i].seqno = job.infos[j].seqno => job.infos[i].seqno = 0
        BY <1>0, <2>1, JobType DEF JobSeqnos, Infos
  <2>5. CASE job'.pc = "cleanup"
        BY <2>5 DEF JobSeqnos
  <2>6. CASE job'.pc \in {"run", "install"}
    <3>1. PICK seqno \in {0, job.last + 1} :
            /\ job'.infos[job.i].seqno = seqno
            /\ \A j \in DOMAIN job.infos : j # job.i => job'.infos[j] = job.infos[j]
            /\ \/ seqno = 0 /\ job'.last = job.last /\ job'.consumed = job.consumed
               \/ seqno = job.last + 1 /\ job'.last = seqno /\ job'.consumed = job.consumed + 1
          BY <1>7, <2>6, RunFileJob
    <3>2. job'.last = last_sequence' + job'.consumed /\ job'.last \in Nat /\ job.last <= job'.last
          BY <1>0, <2>1, <2>2, <2>4, <3>1
    <3>3. ASSUME NEW j \in DOMAIN job.infos
          PROVE  /\ job'.infos[j].seqno <= job'.last
                 /\ job'.infos[j].seqno = 0 \/ last_sequence < job'.infos[j].seqno
      <4>1. CASE j = job.i
            BY <1>0, <2>2, <2>4, <3>1, <4>1
      <4>2. CASE j # job.i
        <5>1. /\ job'.infos[j].seqno = job.infos[j].seqno /\ job.infos[j].seqno \in Nat
              /\ job.infos[j].seqno <= job.last
              /\ job.infos[j].seqno = 0 \/ last_sequence < job.infos[j].seqno
              BY <2>4, <3>1, <4>2
        <5> QED
              BY <2>2, <3>2, <5>1
      <4> QED
            BY <4>1, <4>2
    <3>4. ASSUME NEW j \in DOMAIN job.infos, j # job.i, job'.infos[j].seqno = job'.infos[job.i].seqno
          PROVE  job'.infos[j].seqno = 0
      <4>1. /\ job'.infos[j].seqno = job.infos[j].seqno /\ job.infos[j].seqno \in Nat
            /\ job.infos[j].seqno <= job.last
            BY <2>4, <3>1, <3>4
      <4> QED
            BY <2>2, <3>1, <3>4, <4>1
    <3>5. ASSUME NEW i \in DOMAIN job.infos, NEW j \in DOMAIN job.infos, i # j,
                 job'.infos[i].seqno = job'.infos[j].seqno
          PROVE  job'.infos[i].seqno = 0
      <4>1. CASE i = job.i
            BY <3>4, <3>5, <4>1
      <4>2. CASE j = job.i
            BY <3>4, <3>5, <4>2
      <4>3. CASE i # job.i /\ j # job.i
        <5>1. job'.infos[i] = job.infos[i] /\ job'.infos[j] = job.infos[j]
              BY <3>1, <4>3
        <5> QED
              BY <2>4, <3>5, <5>1
      <4> QED
            BY <4>1, <4>2, <4>3
    <3> QED
          BY <2>1, <2>3, <2>6, <3>2, <3>3, <3>5 DEF JobSeqnos
  <2> QED
        BY <1>7, <2>5, <2>6, RunFileJob
<1>8. CASE Install
      BY <1>8, InstallJob DEF JobSeqnos
<1>9. CASE Cleanup
      BY <1>9, CleanupJob DEF JobSeqnos
<1> QED
  BY <1>1, <1>2, <1>3, <1>4, <1>5, <1>6, <1>7, <1>8, <1>9 DEF IngestNext

LEMMA SeqnosStep == TypesInv /\ SeqnosInv /\ [IngestNext]_ingestVars => SeqnosInv'
<1> SUFFICES ASSUME TypesInv, SeqnosInv, [IngestNext]_ingestVars
             PROVE  SeqnosInv'
    OBVIOUS
<1>1. JobSeqnos'
      BY JobSeqnosStep
<1>2. SeqnosBounded' /\ SeqnosDistinct'
  <2>1. CASE (\E k \in Keys : Put(k)) \/ Install
        BY <2>1, EntriesStep
  <2>2. CASE Flush
        BY <2>2, EntriesStep DEF Flush
  <2>3. CASE FlushForJob /\ FlushMemtable
        BY <2>3, EntriesStep DEF FlushForJob
  <2>4. CASE UNCHANGED dbVars
        BY <2>4 DEF dbVars, SeqnosInv, SeqnosBounded, SeqnosDistinct, Entries, FilesWith
  <2>5. \/ (\E k \in Keys : Put(k)) \/ Install \/ Flush
        \/ FlushForJob /\ FlushMemtable
        \/ UNCHANGED dbVars
        BY DEF IngestNext, ingestVars, dbVars, ReadInfos, LinkFile, SyncDirs, CheckChecksums, PrepareFails,
               StopWrites, NeedsFlush, FlushForJob, RunFile, Cleanup
  <2> QED
        BY <2>1, <2>2, <2>3, <2>4, <2>5
<1> QED
  BY <1>1, <1>2 DEF SeqnosInv, SeqnosBounded

LEMMA SeqnosAlways == IngestSpec => []SeqnosInv
<1>1. QED
  BY SeqnosInit, SeqnosStep, TypesAlways, PTL DEF IngestSpec

\* The workload's puts, the flushes and the jobs never give two entries of a key
\* the same sequence number, but for the zeros of files that overlap nothing.
THEOREM SeqnosDistinctCorrect == IngestSpec => []SeqnosDistinct
<1>1. SeqnosInv => SeqnosDistinct
      BY DEF SeqnosInv
<1> QED
  BY <1>1, SeqnosAlways, PTL

-------------------------------------------------------------------------------
(* The flushed memtables *)

LEMMA FlushOrderInit == IngestInit => FlushOrder
BY IngestAssumption DEF IngestInit, FlushOrder, WorkloadFiles, Levels

LEMMA FlushOrderPut ==
  ASSUME TypesInv, SeqnosInv, FlushOrder, NEW p \in Keys, Put(p)
  PROVE  FlushOrder'
<1>1. /\ levels' = levels /\ memtable' = [memtable EXCEPT ![p] = last_sequence + 1]
      /\ memtable \in [Keys -> Nat] /\ last_sequence \in Nat /\ 0 \in Levels
      BY TypesParts, IngestAssumption DEF Put, Levels
<1>2. ASSUME NEW m \in WorkloadFiles, NEW k \in DOMAIN m.seq, NEW j \in Keys, memtable'[j] > 0
      PROVE  m.seq[k] < memtable'[j]
  <2>1. m.seq[k] \in Nat /\ m.seq[k] <= last_sequence
        BY <1>1, TypesParts DEF WorkloadFiles, LevelTypes, SeqnosInv
  <2>2. CASE j = p
        BY <1>1, <2>1, <2>2
  <2>3. CASE j # p
        BY <1>1, <1>2, <2>3 DEF FlushOrder
  <2> QED
        BY <2>2, <2>3
<1>3. WorkloadFiles' = WorkloadFiles
      BY <1>1 DEF WorkloadFiles
<1> QED
  BY <1>1, <1>2, <1>3 DEF FlushOrder, Older

LEMMA FlushOrderFlush ==
  ASSUME TypesInv, FlushOrder, FlushMemtable
  PROVE  FlushOrder'
<1>1. /\ \A l \in Levels : levels[l] \subseteq levels'[l]
      /\ \A l \in Levels : \A m \in levels'[l] \ levels[l] :
           /\ l = 0 /\ m.from = Workload
           /\ DOMAIN m.seq = {k \in Keys : memtable[k] > 0} /\ DOMAIN m.seq # {}
           /\ \A k \in DOMAIN m.seq : m.seq[k] = memtable[k]
      /\ \A a, b \in levels'[0] : a \notin levels[0] /\ b \notin levels[0] => a = b
      /\ memtable' = [k \in Keys |-> 0]
      BY FlushedFile
<1>2. 0 \in Levels
      BY IngestAssumption DEF Levels
<1>3. \A l \in Levels \ {0} : levels'[l] = levels[l]
      BY <1>1
<1>4. \A l \in Levels \ {0} : \A m \in levels'[l] : m.from # Workload
      BY <1>3 DEF FlushOrder
<1>5. \A m \in WorkloadFiles' : DOMAIN m.seq # {}
      BY <1>1, <1>2 DEF FlushOrder, WorkloadFiles
<1>6. \A j \in Keys : ~(memtable'[j] > 0)
      BY <1>1
<1>7. ASSUME NEW a \in WorkloadFiles, NEW b \in WorkloadFiles', b \notin levels[0]
      PROVE  Older(a, b)
  <2> SUFFICES ASSUME NEW k \in DOMAIN a.seq, NEW j \in DOMAIN b.seq
               PROVE  a.seq[k] < b.seq[j]
      BY DEF Older
  <2>1. b \in levels'[0] \ levels[0]
        BY <1>7 DEF WorkloadFiles
  <2>2. j \in Keys /\ memtable[j] > 0 /\ b.seq[j] = memtable[j]
        BY <1>1, <1>2, <2>1
  <2> QED
        BY <2>2 DEF FlushOrder
<1>8. ASSUME NEW a \in WorkloadFiles', NEW b \in WorkloadFiles', a # b
      PROVE  Older(a, b) \/ Older(b, a)
  <2>1. a \in levels'[0] /\ b \in levels'[0] /\ a.from = Workload /\ b.from = Workload
        BY DEF WorkloadFiles
  <2>2. CASE a \in levels[0] /\ b \in levels[0]
        BY <1>8, <2>1, <2>2 DEF FlushOrder, WorkloadFiles
  <2>3. CASE a \in levels[0] /\ b \notin levels[0]
        BY <1>7, <2>1, <2>3 DEF WorkloadFiles
  <2>4. CASE a \notin levels[0] /\ b \in levels[0]
        BY <1>7, <2>1, <2>4 DEF WorkloadFiles
  <2> QED
        BY <1>1, <1>8, <2>1, <2>2, <2>3, <2>4
<1> QED
  BY <1>4, <1>5, <1>6, <1>8 DEF FlushOrder, Older

LEMMA FlushOrderInstall ==
  ASSUME TypesInv, FlushOrder, Install
  PROVE  FlushOrder'
<1>1. /\ memtable' = memtable /\ job.infos # <<>>
      /\ \/ levels' = [l \in Levels |-> levels[l] \cup AddedFiles(l)]
         \/ levels' = levels
      BY InstallJob DEF Install
<1>2. \A l \in Levels : \A m \in levels'[l] : m \in levels[l] \/ m.from # Workload
  <2>1. \A l \in Levels : \A m \in AddedFiles(l) : m.from # Workload
        BY <1>1, AddedType, IngestAssumption
  <2> QED
        BY <1>1, <2>1
<1>3. \A l \in Levels : levels[l] \subseteq levels'[l]
      BY <1>1
<1>4. 0 \in Levels
      BY IngestAssumption DEF Levels
<1>5. WorkloadFiles' = WorkloadFiles
      BY <1>2, <1>3, <1>4 DEF WorkloadFiles
<1> QED
  BY <1>1, <1>2, <1>5 DEF FlushOrder, Older

LEMMA FlushOrderStep == TypesInv /\ SeqnosInv /\ FlushOrder /\ [IngestNext]_ingestVars => FlushOrder'
<1> SUFFICES ASSUME TypesInv, SeqnosInv, FlushOrder, [IngestNext]_ingestVars
             PROVE  FlushOrder'
    OBVIOUS
<1>1. CASE (\E k \in Keys : Put(k)) \/ Install
      BY <1>1, FlushOrderPut, FlushOrderInstall
<1>2. CASE Flush \/ (FlushForJob /\ FlushMemtable)
      BY <1>2, FlushOrderFlush DEF Flush
<1>3. CASE UNCHANGED dbVars
      BY <1>3 DEF dbVars, FlushOrder, WorkloadFiles, Older
<1>4. \/ (\E k \in Keys : Put(k)) \/ Install \/ Flush
      \/ FlushForJob /\ FlushMemtable
      \/ UNCHANGED dbVars
      BY DEF IngestNext, ingestVars, dbVars, ReadInfos, LinkFile, SyncDirs, CheckChecksums, PrepareFails,
             StopWrites, NeedsFlush, FlushForJob, RunFile, Cleanup
<1> QED
  BY <1>1, <1>2, <1>3, <1>4

LEMMA FlushOrderAlways == IngestSpec => []FlushOrder
<1>1. QED
  BY FlushOrderInit, FlushOrderStep, TypesAlways, SeqnosAlways, PTL DEF IngestSpec

-------------------------------------------------------------------------------
(* The migration *)

\* The SSTable and the level of the call of a migration.
LEMMA MigrationCall ==
  ASSUME TypesInv, IsMigration, job.pc \notin {"idle", "exited"}, job.infos # <<>>
  PROVE  /\ Len(job.infos) = 1 /\ DOMAIN job.infos = {1} /\ at \in DOMAIN calls
         /\ job.infos[1].name = SstOf(at) /\ job.infos[1].path = PathId(SstOf(at))
         /\ Call.external_level = ExtFile[SstOf(at)].level
<1>1. at \in DOMAIN calls /\ InfosOfCall
      BY DEF TypesInv, JobClaims
<1>2. Len(Call.files) = 1 /\ Call.external_level = ExtFile[SstOf(at)].level /\ Call.files[1] = SstOf(at)
      BY <1>1 DEF IsMigration, Call, SstOf
<1>3. Len(job.infos) = 1 /\ DOMAIN job.infos = {1}
      BY <1>1, <1>2, JobType DEF InfosOfCall
<1> QED
  BY <1>1, <1>2, <1>3 DEF InfosOfCall

\* What MigrationInv says of each file, and of each call.
FilesOfCalls ==
  \A l \in Levels : \A m \in levels[l] : m.from # Workload =>
    \E j \in DOMAIN calls : Ingested(j) /\ IsIngested(m, SstOf(j), l)
CallsHaveFiles ==
  \A j \in DOMAIN calls : Ingested(j) =>
    \E m \in levels[ExtFile[SstOf(j)].level] :
       IsIngested(m, SstOf(j), ExtFile[SstOf(j)].level)

LEMMA SstTypes ==
  ASSUME TypesInv, IsMigration, NEW j \in DOMAIN calls
  PROVE  SstOf(j) \in Files /\ ExtFile[SstOf(j)].level \in Levels
<1>1. calls[j] \in IngestCalls
      BY IngestAssumption DEF TypesInv, JobTypes, IngestTypeOK
<1>2. calls[j].files \in Seq(Files) /\ Len(calls[j].files) = 1
      BY <1>1 DEF IngestCalls, IsMigration
<1>3. SstOf(j) \in Files
      BY <1>2 DEF SstOf
<1> QED
  BY <1>3, IngestAssumption

\* A step that ingests nothing, though the workload may flush.
LEMMA MigrationKept ==
  ASSUME TypesInv, MigrationInv, UNCHANGED calls, \A j \in DOMAIN calls : Ingested(j)' <=> Ingested(j),
         \A l \in Levels : levels[l] \subseteq levels'[l],
         \A l \in Levels : \A m \in levels'[l] \ levels[l] : m.from = Workload
  PROVE  MigrationInv'
<1> SUFFICES ASSUME IsMigration'
             PROVE  FilesOfCalls' /\ CallsHaveFiles'
    BY DEF MigrationInv, FilesOfCalls, CallsHaveFiles
<1>1. IsMigration
      BY DEF IsMigration
<1>2. FilesOfCalls /\ CallsHaveFiles
      BY <1>1 DEF MigrationInv, FilesOfCalls, CallsHaveFiles
<1>3. \A j : SstOf(j)' = SstOf(j)
      BY DEF SstOf
<1>5. FilesOfCalls'
      BY <1>2, <1>3 DEF FilesOfCalls, IsIngested
<1>6. CallsHaveFiles'
  <2> SUFFICES ASSUME NEW j \in DOMAIN calls, Ingested(j)
               PROVE  \E m \in levels'[ExtFile[SstOf(j)].level] :
                        IsIngested(m, SstOf(j), ExtFile[SstOf(j)].level)
      BY <1>3 DEF CallsHaveFiles, IsIngested
  <2>1. \E m \in levels[ExtFile[SstOf(j)].level] :
          IsIngested(m, SstOf(j), ExtFile[SstOf(j)].level)
        BY <1>2 DEF CallsHaveFiles
  <2> QED
        BY <1>1, <2>1, SstTypes
<1> QED
  BY <1>5, <1>6

LEMMA MigrationInit == IngestInit => MigrationInv
<1> SUFFICES ASSUME IngestInit
             PROVE  MigrationInv
    OBVIOUS
<1>1. /\ at = 1 /\ calls \in Seq(IngestCalls) /\ \A l \in Levels : levels[l] = {}
      /\ ~Logged
      BY IngestAssumption DEF IngestInit, NoJob, Logged
<1>2. \A j \in DOMAIN calls : ~Ingested(j)
      BY <1>1 DEF Ingested
<1> QED
  BY <1>1, <1>2 DEF MigrationInv

LEMMA MigrationInstall ==
  ASSUME TypesInv, MigrationInv, JobLevels, Install
  PROVE  MigrationInv'
<1>1. UNCHANGED <<calls, at>>
      BY DEF Install
<1>2. /\ job.pc = "install" /\ job.ok /\ job.infos # <<>> /\ at \in DOMAIN calls
      /\ job' \in Jobs /\ job'.pc = "cleanup" /\ job'.infos = job.infos
      /\ \/ job'.ok /\ levels' = [l \in Levels |-> levels[l] \cup AddedFiles(l)]
         \/ ~job'.ok /\ levels' = levels
      BY InstallJob
<1>3. CASE ~job'.ok /\ levels' = levels
  <2>1. \A j \in DOMAIN calls : Ingested(j)' <=> Ingested(j)
        BY <1>1, <1>2, <1>3 DEF Ingested, Logged
  <2> QED
        BY <1>1, <1>3, <2>1, MigrationKept
<1>4. CASE job'.ok /\ levels' = [l \in Levels |-> levels[l] \cup AddedFiles(l)]
  <2> SUFFICES ASSUME IsMigration'
               PROVE  FilesOfCalls' /\ CallsHaveFiles'
      BY DEF MigrationInv, FilesOfCalls, CallsHaveFiles
  <2>1. IsMigration /\ \A j : SstOf(j)' = SstOf(j)
        BY <1>1 DEF IsMigration, SstOf
  <2>2. FilesOfCalls /\ CallsHaveFiles
        BY <2>1 DEF MigrationInv, FilesOfCalls, CallsHaveFiles
  <2>3. \A j \in DOMAIN calls : Ingested(j)' <=> Ingested(j) \/ j = at
        BY <1>1, <1>2, <1>4 DEF Ingested, Logged
  <2>4. /\ DOMAIN job.infos = {1} /\ job.infos[1].name = SstOf(at)
        /\ job.infos[1].path = PathId(SstOf(at)) /\ Call.external_level = ExtFile[SstOf(at)].level
        BY <1>2, <2>1, MigrationCall
  <2>5. job.infos[1].level = ExtFile[SstOf(at)].level /\ ExtFile[SstOf(at)].level \in Levels
        BY <1>2, <2>1, <2>4, SstTypes DEF JobLevels
  <2>6. \A l \in Levels : levels'[l] = levels[l] \cup AddedFiles(l)
        BY <1>4
  <2>7. \A l \in Levels : \A m \in AddedFiles(l) : IsIngested(m, SstOf(at), l)
    <3> SUFFICES ASSUME NEW l \in Levels, NEW m \in AddedFiles(l)
                 PROVE  IsIngested(m, SstOf(at), l)
        OBVIOUS
    <3>1. \E j \in DOMAIN job.infos :
            /\ job.infos[j].level = l /\ m.path = job.infos[j].path
            /\ m.from = job.infos[j].name /\ DOMAIN m.seq = ExtFile[job.infos[j].name].keys
          BY <1>2, AddedType
    <3> QED
          BY <2>4, <2>5, <3>1 DEF IsIngested
  <2>8. FilesOfCalls'
    <3> SUFFICES ASSUME NEW l \in Levels, NEW m \in levels'[l], m.from # Workload
                 PROVE  \E j \in DOMAIN calls : Ingested(j)' /\ IsIngested(m, SstOf(j), l)
        BY <1>1, <2>1 DEF FilesOfCalls, IsIngested
    <3>1. CASE m \in levels[l]
          BY <2>2, <2>3, <3>1 DEF FilesOfCalls
    <3>2. CASE m \in AddedFiles(l)
          BY <1>2, <2>3, <2>7, <3>2
    <3> QED
          BY <2>6, <3>1, <3>2
  <2>9. CallsHaveFiles'
    <3> SUFFICES ASSUME NEW j \in DOMAIN calls, Ingested(j)'
                 PROVE  \E m \in levels'[ExtFile[SstOf(j)].level] :
                          IsIngested(m, SstOf(j), ExtFile[SstOf(j)].level)
        BY <1>1, <2>1 DEF CallsHaveFiles, IsIngested
    <3>1. CASE Ingested(j)
      <4>1. \E m \in levels[ExtFile[SstOf(j)].level] :
              IsIngested(m, SstOf(j), ExtFile[SstOf(j)].level)
            BY <2>2, <3>1 DEF CallsHaveFiles
      <4> QED
            BY <2>1, <2>6, <4>1, SstTypes
    <3>2. CASE j = at
      <4> DEFINE f == job.infos[1]
                 m == [num |-> f.num, path |-> f.path, from |-> f.name,
                       seq |-> [k \in ExtFile[f.name].keys |-> f.seqno]]
      <4>1. m \in AddedFiles(ExtFile[SstOf(at)].level)
            BY <2>4, <2>5 DEF AddedFiles
      <4> HIDE DEF m
      <4> QED
            BY <2>5, <2>6, <2>7, <3>2, <4>1
    <3> QED
          BY <2>3, <3>1, <3>2
  <2> QED
        BY <2>8, <2>9
<1> QED
  BY <1>2, <1>3, <1>4

LEMMA MigrationStep ==
  TypesInv /\ JobLevels /\ MigrationInv /\ [IngestNext]_ingestVars => MigrationInv'
<1> SUFFICES ASSUME TypesInv, JobLevels, MigrationInv, [IngestNext]_ingestVars
             PROVE  MigrationInv'
    OBVIOUS
<1>1. CASE Quiet
  <2>1. \A j \in DOMAIN calls : Ingested(j)' <=> Ingested(j)
        BY <1>1 DEF Quiet, Ingested
  <2> QED
        BY <1>1, <2>1, MigrationKept DEF Quiet
<1>2. CASE ReadInfos \/ LinkFile \/ PrepareFails
  <2>1. UNCHANGED <<calls, at, levels>> /\ job.pc \in {"idle", "link", "unprepare"}
        BY <1>2 DEF ReadInfos, LinkFile, PrepareFails, dbVars
  <2>2. ~Logged'
    <3>1. ReadInfos => ~Logged'
          BY ReadInfosJob DEF Logged
    <3>2. LinkFile => ~Logged'
          BY LinkFileJob DEF Logged
    <3>3. PrepareFails => ~Logged'
          BY JobType DEF PrepareFails, TypesInv, JobClaims, Logged, Jobs
    <3> QED
          BY <1>2, <3>1, <3>2, <3>3
  <2>3. \A j \in DOMAIN calls : Ingested(j)' <=> Ingested(j)
        BY <2>1, <2>2 DEF Ingested, Logged
  <2> QED
        BY <2>1, <2>3, MigrationKept
<1>3. CASE Install
      BY <1>3, MigrationInstall
<1>4. CASE Cleanup
  <2>1. /\ job.pc = "cleanup" /\ UNCHANGED <<calls, levels>>
        /\ \/ job.ok /\ job'.pc = "idle" /\ at' = at + 1
           \/ ~job.ok /\ job'.pc = "exited" /\ at' = at
        BY <1>4, CleanupJob
  <2>2. at \in 1 .. Len(calls) /\ Len(calls) \in Nat /\ DOMAIN calls = 1 .. Len(calls)
        BY <2>1, CallType, IngestAssumption DEF TypesInv, JobTypes, IngestTypeOK
  <2>3. \A j \in DOMAIN calls : Ingested(j)' <=> Ingested(j)
    <3> SUFFICES ASSUME NEW j \in DOMAIN calls
                 PROVE  Ingested(j)' <=> Ingested(j)
        OBVIOUS
    <3>1. CASE job.ok
          BY <2>1, <2>2, <3>1 DEF Ingested, Logged
    <3>2. CASE ~job.ok
          BY <2>1, <2>2, <3>2 DEF Ingested, Logged
    <3> QED
          BY <3>1, <3>2
  <2> QED
        BY <2>1, <2>3, MigrationKept
<1> QED
  BY <1>1, <1>2, <1>3, <1>4, QuietSteps DEF IngestNext

LEMMA MigrationAlways == IngestSpec => []MigrationInv
<1>1. FilesInv => JobLevels
      BY DEF FilesInv
<1> QED
  BY <1>1, MigrationInit, MigrationStep, TypesAlways, FilesAlways, PTL DEF IngestSpec

LEMMA PathOfLevel ==
  ASSUME WrittenByLevel, NEW n \in Files
  PROVE  PathId(n) = IF ExtFile[n].level <= TargetLevel THEN 0 ELSE 1
<1> DEFINE before == {p \in Paths : \A q \in 0 .. p : CfPaths[q + 1] # ExtFile[n].dir}
<1>1. Len(CfPaths) \in Nat /\ Len(CfPaths) >= 2 /\ CfPaths[1] # CfPaths[2]
      BY IngestAssumption DEF WrittenByLevel
<1>2. \A p \in Paths : p \in Nat /\ 0 \in 0 .. p /\ (p # 0 => 1 \in 0 .. p)
      BY <1>1 DEF Paths
<1>3. 0 + 1 = 1 /\ 1 + 1 = 2
      OBVIOUS
<1>4. CASE ExtFile[n].level <= TargetLevel
  <2>1. CfPaths[0 + 1] = ExtFile[n].dir
        BY <1>3, <1>4 DEF WrittenByLevel
  <2>2. before = {}
        BY <1>2, <2>1
  <2> QED
        BY <1>4, <2>2, FS_EmptySet DEF PathId
<1>5. CASE ~(ExtFile[n].level <= TargetLevel)
  <2>1. CfPaths[1 + 1] = ExtFile[n].dir
        BY <1>3, <1>5 DEF WrittenByLevel
  <2>2. CfPaths[0 + 1] # ExtFile[n].dir
        BY <1>1, <1>3, <2>1
  <2>3. 0 \in Paths
        BY <1>1 DEF Paths
  <2>4. \A q \in 0 .. 0 : q = 0
        OBVIOUS
  <2>5. 0 \in before
        BY <2>2, <2>3, <2>4
  <2>6. \A p \in before : p = 0
        BY <1>2, <2>1
  <2>7. before = {0}
        BY <2>5, <2>6
  <2>8. Cardinality(before) = 1
        BY <2>7, FS_Singleton
  <2> QED
        BY <1>5, <2>8 DEF PathId
<1> QED
  BY <1>4, <1>5

\* An ingested file is in the directory its level chose when it was written,
\* whichever calls fail.
THEOREM PlacedByLevelCorrect ==
  ASSUME WrittenByLevel
  PROVE  IngestSpec => []PlacedByLevel
<1>1. TypesInv /\ MigrationInv => PlacedByLevel
  <2> SUFFICES ASSUME TypesInv, MigrationInv, IsMigration,
                      NEW l \in Levels, NEW m \in levels[l], m.from # Workload
               PROVE  m.path = (IF l <= TargetLevel THEN 0 ELSE 1)
      BY DEF PlacedByLevel
  <2>1. PICK j \in DOMAIN calls : IsIngested(m, SstOf(j), l)
        BY DEF MigrationInv
  <2>2. SstOf(j) \in Files
        BY <2>1, SstTypes
  <2> QED
        BY <2>1, <2>2, PathOfLevel DEF IsIngested
<1> QED
  BY <1>1, TypesAlways, MigrationAlways, PTL

\* The largest number of a file is one of its numbers.
LEMMA LargestSeqnoOf ==
  ASSUME TypesInv, SeqnosInv, NEW l \in Levels, NEW m \in levels[l], DOMAIN m.seq # {}
  PROVE  /\ \E k \in DOMAIN m.seq : LargestSeqno(m) = m.seq[k]
         /\ \A k \in DOMAIN m.seq : m.seq[k] \in Nat /\ m.seq[k] <= LargestSeqno(m)
         /\ LargestSeqno(m) \in Nat
<1> DEFINE seqs == {m.seq[k] : k \in DOMAIN m.seq}
<1>1. m.seq \in [DOMAIN m.seq -> Nat] /\ last_sequence \in Nat
      BY TypesParts DEF LevelTypes
<1>2. \A k \in DOMAIN m.seq : m.seq[k] \in Nat /\ m.seq[k] <= last_sequence
      BY <1>1 DEF SeqnosInv
<1>3. seqs \subseteq Nat /\ seqs # {} /\ \A y \in seqs : y <= last_sequence
      BY <1>2
<1>4. Max(seqs) \in seqs /\ \A y \in seqs : Max(seqs) >= y
      BY <1>1, <1>3, MaxOfNaturals
<1>5. LargestSeqno(m) = Max(seqs)
      BY DEF LargestSeqno
<1> HIDE DEF seqs
<1>6. LargestSeqno(m) \in seqs /\ LargestSeqno(m) \in Nat
      BY <1>3, <1>4, <1>5
<1>7. \A k \in DOMAIN m.seq : m.seq[k] \in seqs
      BY DEF seqs
<1> QED
  BY <1>2, <1>4, <1>5, <1>6, <1>7 DEF seqs

\* The entries the workload put are in the memtable and in the flushed files.
LEMMA PutsOf ==
  ASSUME TypesInv, FlushOrder, NEW k \in Keys, NEW p \in Puts(k)
  PROVE  \/ p.seq = memtable[k] /\ memtable[k] > 0
         \/ \E w \in WorkloadFiles : k \in DOMAIN w.seq /\ p.seq = w.seq[k]
<1>1. p \in Entries(k) /\ p.from = Workload
      BY DEF Puts
<1>2. CASE p = PutEntry(k) /\ memtable[k] # 0
      BY <1>2, TypesParts DEF PutEntry
<1>3. ASSUME NEW l \in Levels, NEW m \in levels[l], k \in DOMAIN m.seq, p = FileEntry(m, k)
      PROVE  \E w \in WorkloadFiles : k \in DOMAIN w.seq /\ p.seq = w.seq[k]
  <2>1. m.from = Workload /\ p.seq = m.seq[k]
        BY <1>1, <1>3 DEF FileEntry
  <2>2. m \in WorkloadFiles
        BY <2>1 DEF FlushOrder, WorkloadFiles
  <2> QED
        BY <1>3, <2>1, <2>2
<1> QED
  BY <1>1, <1>2, <1>3, EntriesOf

\* Of the files of level 0 a Get takes one with the largest number; when it is
\* a flushed one, its entries are the workload's newest.
LEMMA NewestOfWorkload ==
  ASSUME TypesInv, SeqnosInv, FlushOrder, NEW a \in WorkloadFiles, NEW b \in WorkloadFiles,
         LargestSeqno(b) <= LargestSeqno(a), NEW k, k \in DOMAIN a.seq, k \in DOMAIN b.seq
  PROVE  b.seq[k] <= a.seq[k]
<1>1. 0 \in Levels /\ a \in levels[0] /\ b \in levels[0]
      BY IngestAssumption DEF Levels, WorkloadFiles
<1>2. /\ \E j \in DOMAIN a.seq : LargestSeqno(a) = a.seq[j]
      /\ a.seq[k] \in Nat /\ LargestSeqno(a) \in Nat
      BY <1>1, LargestSeqnoOf
<1>3. b.seq[k] \in Nat /\ b.seq[k] <= LargestSeqno(b) /\ LargestSeqno(b) \in Nat
      BY <1>1, LargestSeqnoOf
<1>4. CASE a = b
      BY <1>2, <1>4
<1>5. CASE Older(a, b)
  <2>1. LargestSeqno(a) < b.seq[k]
        BY <1>2, <1>5 DEF Older
  <2> QED
        BY <1>2, <1>3, <2>1
<1>6. CASE Older(b, a)
  <2>1. b.seq[k] < a.seq[k]
        BY <1>6 DEF Older
  <2> QED
        BY <1>2, <1>3, <2>1
<1> QED
  BY <1>4, <1>5, <1>6 DEF FlushOrder

\* The least level is 0 when level 0 is one of them.
LEMMA MinZero ==
  ASSUME NEW S, S \subseteq Nat, 0 \in S
  PROVE  Min(S) = 0
<1>1. Min(S) \in S /\ Min(S) <= 0
      BY MinOfNaturals
<1>2. Min(S) \in Nat
      BY <1>1
<1> QED
  BY <1>1, <1>2

\* While a migration runs, what the workload puts is hidden at most by an
\* SSTable of level 0 of the source, and never by an older put.
THEOREM OnlyLevelZeroHidesCorrect == IngestSpec => []OnlyLevelZeroHides
<1>1. TypesInv /\ SeqnosInv /\ FlushOrder /\ MigrationInv => OnlyLevelZeroHides
  <2> SUFFICES ASSUME TypesInv, SeqnosInv, FlushOrder, MigrationInv, IsMigration,
                      NEW k \in Keys, Puts(k) # {}, NEW e \in Get(k)
               PROVE  \/ e.from = Workload /\ \A p \in Puts(k) : p.seq <= e.seq
                      \/ e.from # Workload /\ ExtFile[e.from].level = 0
      BY DEF OnlyLevelZeroHides
  <2>1. memtable \in [Keys -> Nat] /\ 0 \in Levels /\ Levels \subseteq Nat
        BY TypesParts, IngestAssumption DEF Levels
  <2>2. CASE memtable[k] > 0
    <3>1. e = [from |-> Workload, seq |-> memtable[k]]
          BY <2>2 DEF Get
    <3>2. ASSUME NEW p \in Puts(k)
          PROVE  p.seq <= memtable[k]
      <4>1. CASE p.seq = memtable[k]
            BY <2>1, <4>1
      <4>2. ASSUME NEW w \in WorkloadFiles, k \in DOMAIN w.seq, p.seq = w.seq[k]
            PROVE  p.seq <= memtable[k]
        <5>1. w.seq[k] < memtable[k]
              BY <2>2, <4>2 DEF FlushOrder
        <5>2. w.seq[k] \in Nat
              BY <2>1, <4>2, TypesParts DEF LevelTypes, WorkloadFiles
        <5> QED
              BY <2>1, <4>2, <5>1, <5>2
      <4> QED
            BY <4>1, <4>2, PutsOf
    <3> QED
          BY <3>1, <3>2
  <2>3. CASE ~(memtable[k] > 0)
    <3> DEFINE holding == {l \in Levels : FilesWith(k, l) # {}}
               held == FilesWith(k, Min(holding))
               top == {m \in held : \A o \in held : LargestSeqno(o) <= LargestSeqno(m)}
    <3>1. \A p \in Puts(k) : \E w \in WorkloadFiles : k \in DOMAIN w.seq /\ p.seq = w.seq[k]
          BY <2>3, PutsOf
    <3>2. PICK w \in WorkloadFiles : k \in DOMAIN w.seq
          BY <3>1
    <3>3. 0 \in holding
          BY <2>1, <3>2 DEF FilesWith, WorkloadFiles
    <3>4. Min(holding) = 0
          BY <2>1, <3>3, MinZero
    <3>5. e \in {[from |-> m.from, seq |-> m.seq[k]] : m \in IF Min(holding) = 0 THEN top ELSE held}
          BY <2>3, <3>3 DEF Get
    <3>6. PICK m \in top : e = [from |-> m.from, seq |-> m.seq[k]]
          BY <3>4, <3>5
    <3>7. m \in levels[0] /\ k \in DOMAIN m.seq
          BY <3>4, <3>6 DEF FilesWith
    <3>8. CASE m.from = Workload
      <4>1. m \in WorkloadFiles
            BY <3>7, <3>8 DEF WorkloadFiles
      <4>2. ASSUME NEW p \in Puts(k)
            PROVE  p.seq <= e.seq
        <5>1. PICK o \in WorkloadFiles : k \in DOMAIN o.seq /\ p.seq = o.seq[k]
              BY <3>1
        <5>2. o \in held
              BY <3>4, <5>1 DEF FilesWith, WorkloadFiles
        <5>3. LargestSeqno(o) <= LargestSeqno(m)
              BY <3>6, <5>2
        <5>4. o.seq[k] <= m.seq[k]
              BY <3>7, <4>1, <5>1, <5>3, NewestOfWorkload
        <5> QED
              BY <3>6, <5>1, <5>4
      <4> QED
            BY <3>6, <3>8, <4>2
    <3>9. CASE m.from # Workload
      <4>1. PICK j \in DOMAIN calls : IsIngested(m, SstOf(j), 0)
            BY <2>1, <3>7, <3>9 DEF MigrationInv
      <4> QED
            BY <3>6, <3>9, <4>1 DEF IsIngested
    <3> QED
          BY <3>8, <3>9
  <2> QED
        BY <2>2, <2>3
<1> QED
  BY <1>1, TypesAlways, SeqnosAlways, FlushOrderAlways, MigrationAlways, PTL

\* Two files of level 0 that hold a key are two.
LEMMA TwoLevelZeroFiles ==
  ASSUME TypesInv, NEW k, NEW a \in LevelZeroFiles(k), NEW b \in LevelZeroFiles(k), a # b
  PROVE  ~(Cardinality(LevelZeroFiles(k)) <= 1)
<1> DEFINE names == {calls[i].files[1] : i \in DOMAIN calls}
           name == [i \in DOMAIN calls |-> calls[i].files[1]]
<1>1. DOMAIN calls = 1 .. Len(calls) /\ Len(calls) \in Nat
      BY IngestAssumption DEF TypesInv, JobTypes, IngestTypeOK
<1>2. IsFiniteSet(DOMAIN calls)
      BY <1>1, FS_Interval
<1>3. name \in Surjection(DOMAIN calls, names)
      BY DEF Surjection
<1>4. IsFiniteSet(names)
      BY <1>2, <1>3, FS_Surjection
<1>5. LevelZeroFiles(k) \in SUBSET names
      BY DEF LevelZeroFiles
<1> HIDE DEF names
<1>6. IsFiniteSet(LevelZeroFiles(k))
      BY <1>4, <1>5, FS_Subset
<1>7. IsFiniteSet({a}) /\ Cardinality({a}) = 1
      BY FS_Singleton
<1>8. IsFiniteSet({a} \cup {b}) /\ Cardinality({a} \cup {b}) = 2
      BY <1>7, FS_AddElement
<1>9. {a} \cup {b} \in SUBSET LevelZeroFiles(k)
      OBVIOUS
<1>10. Cardinality({a} \cup {b}) <= Cardinality(LevelZeroFiles(k))
      BY <1>6, <1>9, FS_Subset
<1>11. Cardinality(LevelZeroFiles(k)) \in Nat
      BY <1>6, FS_CardinalityType
<1> QED
  BY <1>8, <1>10, <1>11

\* While a migration runs, a key the workload has not put has the source's value
\* or none: the levels are filled from the first to the last.
THEOREM SourceOrderCorrect ==
  ASSUME SourceLevels
  PROVE  IngestSpec => []SourceOrderKept
<1>1. TypesInv /\ FlushOrder /\ MigrationInv => SourceOrderKept
  <2> SUFFICES ASSUME TypesInv, FlushOrder, MigrationInv, IsMigration,
                      NEW k \in Keys, Puts(k) = {}, Cardinality(LevelZeroFiles(k)) <= 1, NEW e \in Get(k)
               PROVE  e.from \in SourceFile(k)
      BY DEF SourceOrderKept
  <2> DEFINE levelsOf == {l \in Levels : FilesWith(k, l) # {}}
             L == Min(levelsOf)
             holders == {i \in DOMAIN calls : k \in ExtFile[calls[i].files[1]].keys}
  <2>1. memtable \in [Keys -> Nat] /\ Levels \subseteq Nat
        BY TypesParts, IngestAssumption DEF Levels
  <2>2. ~(memtable[k] > 0)
    <3> SUFFICES ASSUME memtable[k] > 0
                 PROVE  FALSE
        OBVIOUS
    <3>1. PutEntry(k) \in Entries(k) /\ PutEntry(k).from = Workload
          BY <2>1, EntriesOf DEF PutEntry
    <3> QED
          BY <3>1 DEF Puts
  <2>3. levelsOf # {} /\ \E m \in FilesWith(k, L) : e.from = m.from
        BY <2>2, SMTT(30) DEF Get
  <2>4. L \in levelsOf /\ \A l \in levelsOf : L <= l
    <3>1. levelsOf \subseteq Nat
          BY <2>1
    <3> HIDE DEF levelsOf
    <3> QED
          BY <2>3, <3>1, MinOfNaturals
  <2>5. PICK m \in FilesWith(k, L) : e.from = m.from
        BY <2>3
  <2> HIDE DEF L
  <2>6. L \in Levels /\ m \in levels[L] /\ k \in DOMAIN m.seq
        BY <2>4, <2>5 DEF FilesWith
  <2>7. m.from # Workload
    <3> SUFFICES ASSUME m.from = Workload
                 PROVE  FALSE
        OBVIOUS
    <3>1. FileEntry(m, k) \in Entries(k) /\ FileEntry(m, k).from = Workload
          BY <2>6, EntriesOf DEF FileEntry
    <3> QED
          BY <3>1 DEF Puts
  <2>8. PICK j \in DOMAIN calls : Ingested(j) /\ IsIngested(m, SstOf(j), L)
        BY <2>6, <2>7 DEF MigrationInv
  <2>9. e.from = SstOf(j) /\ ExtFile[SstOf(j)].level = L /\ k \in ExtFile[SstOf(j)].keys
        BY <2>5, <2>6, <2>8 DEF IsIngested
  <2>10. calls \in Seq(IngestCalls) /\ calls \in CallSets
        BY IngestAssumption DEF TypesInv, JobTypes, IngestTypeOK
  <2>11. j \in holders /\ holders \subseteq Nat
        BY <2>9, <2>10 DEF SstOf
  <2> DEFINE i0 == Min(holders)
  <2>12. i0 \in holders /\ i0 <= j
    <3> HIDE DEF holders
    <3> QED
          BY <2>11, MinOfNaturals
  <2>13. SourceFile(k) = {SstOf(i0)}
        BY <2>11 DEF SourceFile, SstOf
  <2> HIDE DEF i0
  <2>14. i0 \in DOMAIN calls /\ k \in ExtFile[SstOf(i0)].keys
        BY <2>12 DEF SstOf
  <2>15. CASE i0 = j
        BY <2>9, <2>13, <2>15
  <2>16. CASE i0 < j
    <3>1. at \in Nat /\ j \in Nat /\ i0 \in Nat
          BY <2>10, <2>14 DEF TypesInv, JobTypes, IngestTypeOK
    <3>2. Ingested(i0)
          BY <2>8, <2>16, <3>1 DEF Ingested
    <3>3. PICK n \in levels[ExtFile[SstOf(i0)].level] :
            IsIngested(n, SstOf(i0), ExtFile[SstOf(i0)].level)
          BY <2>14, <3>2 DEF MigrationInv
    <3>4. ExtFile[SstOf(i0)].level \in levelsOf
          BY <2>14, <3>3, SstTypes DEF IsIngested, FilesWith
    <3>5. L <= ExtFile[SstOf(i0)].level
          BY <2>4, <3>4
    <3>6. calls[i0].files # <<>> /\ calls[j].files # <<>>
          BY <2>14 DEF IsMigration
    <3>7. /\ ExtFile[SstOf(i0)].level <= L /\ SstOf(i0) # SstOf(j)
          /\ ExtFile[SstOf(i0)].level = L /\ ExtFile[SstOf(i0)].level > 0 =>
               ExtFile[SstOf(i0)].keys \cap ExtFile[SstOf(j)].keys = {}
          BY <2>9, <2>10, <2>14, <2>16, <3>6 DEF SourceLevels, SstOf
    <3>8. ExtFile[SstOf(i0)].level \in Nat /\ L \in Nat
          BY <2>1, <2>6, <2>14, SstTypes
    <3>9. ExtFile[SstOf(i0)].level = L
          BY <3>5, <3>7, <3>8
    <3>10. L = 0
          BY <2>9, <2>14, <3>7, <3>8, <3>9
    <3>11. SstOf(i0) \in LevelZeroFiles(k) /\ SstOf(j) \in LevelZeroFiles(k)
          BY <2>9, <2>14, <3>9, <3>10 DEF LevelZeroFiles, SstOf
    <3> QED
          BY <3>7, <3>11, TwoLevelZeroFiles
  <2> QED
        BY <2>10, <2>11, <2>12, <2>14, <2>15, <2>16
<1> QED
  BY <1>1, TypesAlways, FlushOrderAlways, MigrationAlways, PTL

==============================================================================
