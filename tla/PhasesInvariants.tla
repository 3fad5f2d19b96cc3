--------------------------- MODULE PhasesInvariants ---------------------------
(***************************************************************************)
(* Invariants of Phases strong enough to be inductive: the types, the lock *)
(* step of the two main threads on main_fd, and where the question or the  *)
(* answer of a remote read is.                                             *)
(***************************************************************************)
EXTENDS Phases

Lives == {"running", "exited", "ended"}

BothRun == src_life = "running" /\ dst_life = "running"

-------------------------------------------------------------------------------
(* Types *)

SrcPhases == {"listen", "accept", "options", "options_flag", "meta", "meta_flag", "transfer",
              "spin", "last_flag", "join"}
DstPhases == {"connect", "options", "meta", "transfer", "spin", "flag", "join"}

KeyParts == {<<k, "key", i>> : k \in Keys, i \in 1 .. KeyPieces}
AnswerParts == {<<k, "value", i>> : k \in Keys, i \in 1 .. ValuePieces} \cup
               {<<"NotFound", i>> : i \in 1 .. NotFoundPieces}

MainTypes ==
  /\ src_life \in Lives /\ dst_life \in Lives
  /\ src \in [pc : SrcPhases, n : Nat]
  /\ dst \in [pc : DstPhases, n : Nat, num : 0 .. MaxNum]
  /\ to_dst \in Seq([of : {"options", "file"}, n : Nat])
  /\ to_src \in Seq([of : {"options", "file", "end"}, n : Nat])
  /\ sent \in 0 .. MaxNum /\ moved \in 0 .. sent
  /\ moved < sent => sent <= NumFiles   \* beyond it nothing is received
  /\ mig_ended \in BOOLEAN

\* The main thread of the source counts its sockets, then its files.
SrcCounts ==
  /\ listening \in 0 .. NumConns
  /\ src.pc = "listen" => src.n = 0 /\ listening < NumConns
  /\ src.pc = "accept" => src.n < NumConns
  /\ src.pc \in {"options", "options_flag"} => src.n = 0
  /\ src.pc = "meta" => src.n <= NumFiles
  /\ src.pc = "meta_flag" => src.n < NumFiles
  /\ src.pc \in {"transfer", "spin", "last_flag", "join"} => src.n = NumFiles

RemoteTypes ==
  /\ size_wire \in Seq(Nat) /\ key_wire \in Seq(KeyParts) /\ value_wire \in Seq(AnswerParts)
  /\ answerer \in [pc : {"start", "size", "key", "ended"}, key : Seq(KeyParts), silent : BOOLEAN]
  /\ Len(answerer.key) <= KeyPieces
  /\ asker \in [pc : {"start", "loop", "key", "recv", "ended"}, key : Keys, value : Seq(AnswerParts)]
  /\ Len(asker.value) <= ValuePieces

\* What a Get may answer with.
RightFor(k, value) ==
  \/ value = PutValue /\ k \in put_keys
  \/ value = ValueOf(k) /\ k \notin Missing

\* The destination's own database, and the last Get.
StoreRight ==
  /\ put_keys \subseteq Keys
  /\ store \in [Keys -> {Nothing, PutValue} \cup {ValueOf(k) : k \in Keys}]
  /\ \A k \in Keys : store[k] # Nothing => RightFor(k, store[k])

PhasesTypes == MainTypes /\ SrcCounts /\ RemoteTypes /\ StoreRight

-------------------------------------------------------------------------------
(* The main threads *)

DstHasOptions == dst.pc \notin {"connect", "options"}

\* The destination is done with the metadata of n files: it asks for the next
\* one, or has started its threads when there is none.
DstHas(n) ==
  /\ dst.num = NumFiles
  /\ \/ dst.pc = "meta" /\ dst.n = n
     \/ dst.pc = "transfer" /\ n = NumFiles

NothingSent == to_dst = <<>> /\ to_src = <<>>
OnlyToDst(m) == to_dst = <<m>> /\ to_src = <<>>
OnlyToSrc(m) == to_dst = <<>> /\ to_src = <<m>>

\* For each place of the source's main thread, what is on main_fd and where the
\* destination's main thread is.  Either thread has sent what the other one is
\* about to read or has read all there is.
MainLockStep ==
  BothRun =>
    /\ dst.pc = "options" => dst.n = 0
    /\ dst.pc \in {"flag", "join"} => moved = NumFiles
    /\ CASE src.pc \in {"listen", "accept", "options"} -> NothingSent /\ ~DstHasOptions /\ sent = 0
         [] src.pc = "options_flag" ->
              /\ sent = 0
              /\ \/ OnlyToDst(Message("options", 0)) /\ ~DstHasOptions
                 \/ OnlyToSrc(Message("options", 0)) /\ DstHas(0)
         [] src.pc = "meta" -> NothingSent /\ DstHas(src.n) /\ sent = 0
         [] src.pc = "meta_flag" ->
              /\ sent = 0
              /\ \/ OnlyToDst(Message("file", src.n)) /\ DstHas(src.n)
                 \/ OnlyToSrc(Message("file", src.n)) /\ DstHas(src.n + 1)
         [] src.pc \in {"transfer", "last_flag"} ->
              /\ src.pc = "last_flag" => sent = NumFiles
              /\ \/ NothingSent /\ (DstHas(NumFiles) \/ dst.pc = "flag")
                 \/ OnlyToSrc(Message("end", 0)) /\ dst.pc = "join"
         [] src.pc = "spin" -> NothingSent /\ DstHas(NumFiles) /\ sent < NumFiles
         [] src.pc = "join" -> NothingSent /\ dst.pc = "join" /\ sent = NumFiles

\* A workload thread starts when the main thread says so.
ThreadsStart ==
  /\ src.pc \in {"listen", "accept", "options", "options_flag", "meta", "meta_flag"} =>
       answerer.pc = "start"
  /\ ~DstHasOptions \/ dst.pc = "meta" => asker.pc = "start"

\* The source ends only after its workload thread, and that one only after the
\* destination.
EndsInTurn ==
  /\ src_life = "ended" => answerer.pc = "ended"
  /\ answerer.pc = "ended" => dst_life # "running"

-------------------------------------------------------------------------------
(* A remote read *)

\* What the source may answer for k: a value, NotFound, or nothing at all.
AnswersFor(k) == {IF k \in Missing THEN NotFound ELSE ValueOf(k), <<>>}

\* The question is on its way: its size, then its key, and no answer yet.
Asking(key_sent) ==
  /\ value_wire = <<>> /\ asker.value = <<>>
  /\ \/ answerer.pc \in {"start", "size"} /\ size_wire # <<>> /\ Len(size_wire) = 1 /\ key_wire = key_sent
     \/ answerer.pc = "key" /\ size_wire = <<>> /\ answerer.key \o key_wire = key_sent

\* While both run, everything of a question and its answer is in one place.
QuestionInStep ==
  BothRun =>
    CASE asker.pc \in {"start", "loop", "ended"} ->
           /\ size_wire = <<>> /\ key_wire = <<>> /\ value_wire = <<>>
           /\ answerer.pc \in {"start", "size"}
      [] asker.pc = "key" -> Asking(<<>>)
      [] asker.pc = "recv" ->
           \/ Asking(KeyOf(asker.key))
           \/ answerer.pc = "size" /\ size_wire = <<>> /\ key_wire = <<>>

\* What the destination has received of an answer and what is still to come make
\* one answer to its question, though the source may be gone.
AnswerWhole ==
  dst_life = "running" =>
    /\ asker.pc # "recv" => value_wire = <<>> /\ asker.value = <<>>
    /\ asker.pc = "recv" => asker.value \o value_wire \in AnswersFor(asker.key)
    /\ read.value # Nothing => RightFor(read.key, read.value)

RemoteLockStep == QuestionInStep /\ AnswerWhole

==============================================================================
