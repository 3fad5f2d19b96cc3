------------------------------ MODULE RemoteGet ------------------------------
(***************************************************************************)
(* The workload threads of the two programs.  The destination's thread     *)
(* puts and gets keys of its own database while files arrive; a key it     *)
(* does not find there it asks of the source, whose thread does nothing    *)
(* but answer (MyGet on both sides).  The size of a key travels on         *)
(* wl_fds[0], keys and answers on wl_fds[1]; neither carries a header, and *)
(* a recv may return any part of what is there.                            *)
(*                                                                         *)
(* A key or value is a sequence of pieces, a piece being what one recv     *)
(* can no longer split.  Eight bytes of size are one piece.                *)
(***************************************************************************)
EXTENDS Naturals, Sequences

CONSTANTS
  Keys,
  Missing,       \* keys the source does not have either
  KeyPieces,
  ValuePieces,   \* value_size; longer than an answer NotFound
  MayFail        \* what may fail: "exit" (a process, at any point), "get", "put",
                 \* or "deletion": the transfer of a file that holds one

NotFoundPieces == 2

ASSUME RemoteAssumption ==
  /\ Keys # {} /\ Missing \subseteq Keys
  /\ KeyPieces \in Nat \ {0} /\ ValuePieces \in Nat /\ ValuePieces > NotFoundPieces

VARIABLES
  src_life, dst_life,   \* of each process: "running", "exited" or "ended"
  size_wire,            \* wl_fds[0]: sizes to the source
  key_wire,             \* wl_fds[1]: pieces of keys to the source
  value_wire,           \* wl_fds[1]: pieces of answers to the destination
  answerer,             \* the source's thread: pc, key received so far
  asker,                \* the destination's thread: pc, key, value received so far
  store,                \* key -> what the destination's own database answers
  put_keys,             \* keys the workload has put
  read,                 \* the last Get that returned a value: key and value
  mig_ended

workloadVars == <<size_wire, key_wire, value_wire, answerer, asker, store, put_keys, read>>

KeyOf(k) == [i \in 1 .. KeyPieces |-> <<k, "key", i>>]
ValueOf(k) == [i \in 1 .. ValuePieces |-> <<k, "value", i>>]
NotFound == [i \in 1 .. NotFoundPieces |-> <<"NotFound", i>>]
PutValue == <<"put">>
Nothing == <<>>

RemoteInit ==
  /\ src_life = "running" /\ dst_life = "running"
  /\ size_wire = <<>> /\ key_wire = <<>> /\ value_wire = <<>>
  /\ answerer = [pc |-> "start", key |-> <<>>, silent |-> FALSE]
  /\ asker = [pc |-> "start", key |-> CHOOSE k \in Keys : TRUE, value |-> <<>>]
  /\ store = [k \in Keys |-> Nothing]
  /\ put_keys = {}
  /\ read = [key |-> CHOOSE k \in Keys : TRUE, value |-> Nothing]
  /\ mig_ended = FALSE

\* A recv of at most room pieces from a wire.
Chunks(wire, room) ==
  {SubSeq(wire, 1, n) : n \in 1 .. (IF Len(wire) < room THEN Len(wire) ELSE room)}
Rest(wire, chunk) == SubSeq(wire, Len(chunk) + 1, Len(wire))

\* A send to a process that is gone is lost, or kills the sender (SIGPIPE).
Sent(wire, wire_, pieces, peer, own, own_) ==
  \/ wire_ = (IF peer = "running" THEN wire \o pieces ELSE wire) /\ own_ = own
  \/ peer # "running" /\ wire_ = wire /\ own_ = "exited"

-------------------------------------------------------------------------------
(* The source: MyGet in a loop, until it times out *)

AnswererAt(pc) == src_life = "running" /\ answerer.pc = pc

AnswerSize ==
  /\ AnswererAt("size")
  /\ size_wire # <<>>
  /\ size_wire' = Tail(size_wire)
  /\ answerer' = [answerer EXCEPT !.pc = "key", !.key = <<>>]
  /\ UNCHANGED <<src_life, dst_life, key_wire, value_wire, asker, store, put_keys, read, mig_ended>>

AnswerKey ==
  /\ AnswererAt("key")
  /\ Len(answerer.key) < KeyPieces
  /\ \E chunk \in Chunks(key_wire, KeyPieces - Len(answerer.key)) :
       /\ key_wire' = Rest(key_wire, chunk)
       /\ answerer' = [answerer EXCEPT !.key = @ \o chunk]
  /\ UNCHANGED <<src_life, dst_life, size_wire, value_wire, asker, store, put_keys, read, mig_ended>>

\* recv returns 0, the status is TimedOut and the loop ends.
AnswerTimedOut ==
  /\ dst_life # "running"
  /\ \/ AnswererAt("size") /\ size_wire = <<>>
     \/ AnswererAt("key") /\ Len(answerer.key) < KeyPieces /\ key_wire = <<>>
  /\ answerer' = [answerer EXCEPT !.pc = "ended"]
  /\ UNCHANGED <<src_life, dst_life, size_wire, key_wire, value_wire, asker, store, put_keys, read, mig_ended>>

\* The key that was received, when it is one.
AskedKey == {k \in Keys : KeyOf(k) = answerer.key}

\* The source's own Get: the value, NotFound, or an error, which is answered
\* with the empty string.
Answers ==
  {IF k \in Missing THEN NotFound ELSE ValueOf(k) : k \in AskedKey} \cup
  (IF AskedKey = {} THEN {NotFound} ELSE {}) \cup
  (IF "get" \in MayFail THEN {<<>>} ELSE {})

AnswerSend ==
  /\ AnswererAt("key")
  /\ Len(answerer.key) = KeyPieces
  /\ \E answer \in Answers :
       /\ Sent(value_wire, value_wire', answer, dst_life, src_life, src_life')
       /\ answerer' = [answerer EXCEPT !.pc = "size", !.silent = @ \/ answer = <<>>]
  /\ UNCHANGED <<dst_life, size_wire, key_wire, asker, store, put_keys, read, mig_ended>>

Answerer == AnswerSize \/ AnswerKey \/ AnswerTimedOut \/ AnswerSend

-------------------------------------------------------------------------------
(* The destination: Put or MyGet until mig_ended *)

AskerAt(pc) == dst_life = "running" /\ asker.pc = pc

AskPut(k) ==
  /\ AskerAt("loop") /\ ~mig_ended
  /\ \/ /\ store' = [store EXCEPT ![k] = PutValue]
        /\ put_keys' = put_keys \cup {k}
        /\ UNCHANGED dst_life
     \/ /\ "put" \in MayFail
        /\ dst_life' = "exited"
        /\ UNCHANGED <<store, put_keys>>
  /\ UNCHANGED <<src_life, size_wire, key_wire, value_wire, answerer, asker, read, mig_ended>>

\* A Get the database itself answers.
AskLocal(k) ==
  /\ AskerAt("loop") /\ ~mig_ended
  /\ store[k] # Nothing
  /\ read' = [key |-> k, value |-> store[k]]
  /\ UNCHANGED <<src_life, dst_life, size_wire, key_wire, value_wire, answerer, asker, store, put_keys, mig_ended>>

AskSize(k) ==
  /\ AskerAt("loop") /\ ~mig_ended
  /\ store[k] = Nothing
  /\ Sent(size_wire, size_wire', <<KeyPieces>>, src_life, dst_life, dst_life')
  /\ asker' = [pc |-> "key", key |-> k, value |-> <<>>]
  /\ UNCHANGED <<src_life, key_wire, value_wire, answerer, store, put_keys, read, mig_ended>>

AskKey ==
  /\ AskerAt("key")
  /\ Sent(key_wire, key_wire', KeyOf(asker.key), src_life, dst_life, dst_life')
  /\ asker' = [asker EXCEPT !.pc = "recv"]
  /\ UNCHANGED <<src_life, size_wire, value_wire, answerer, store, put_keys, read, mig_ended>>

\* A slip: one recv is taken for the whole answer.
AskRecvOnce ==
  /\ AskerAt("recv")
  /\ \E chunk \in Chunks(value_wire, ValuePieces - Len(asker.value)) :
       /\ value_wire' = Rest(value_wire, chunk)
       /\ asker' = [asker EXCEPT !.pc = "loop", !.value = <<>>]
       /\ read' = [key |-> asker.key, value |-> chunk]
  /\ UNCHANGED <<src_life, dst_life, size_wire, key_wire, answerer, store, put_keys, mig_ended>>

\* The loop of MyGet: until value_size bytes are there, or the first eight of
\* them are "NotFound"; AssertStatus ends the process in that case.
AskRecv ==
  /\ AskerAt("recv")
  /\ \E chunk \in Chunks(value_wire, ValuePieces - Len(asker.value)) :
       LET value == asker.value \o chunk
           missing == Len(value) >= NotFoundPieces /\ SubSeq(value, 1, NotFoundPieces) = NotFound
           whole == Len(value) = ValuePieces
       IN  /\ value_wire' = Rest(value_wire, chunk)
           /\ dst_life' = IF missing THEN "exited" ELSE dst_life
           /\ asker' = IF whole /\ ~missing THEN [asker EXCEPT !.pc = "loop", !.value = <<>>]
                       ELSE [asker EXCEPT !.value = value]
           /\ read' = IF whole /\ ~missing THEN [key |-> asker.key, value |-> value] ELSE read
  /\ UNCHANGED <<src_life, size_wire, key_wire, answerer, store, put_keys, mig_ended>>

\* recv returns 0: TimedOut, and AssertStatus ends the process.
AskTimedOut ==
  /\ AskerAt("recv")
  /\ value_wire = <<>> /\ src_life # "running"
  /\ dst_life' = "exited"
  /\ UNCHANGED <<src_life, size_wire, key_wire, value_wire, answerer, asker, store, put_keys, read, mig_ended>>

AskEnd ==
  /\ AskerAt("loop") /\ mig_ended
  /\ asker' = [asker EXCEPT !.pc = "ended"]
  /\ UNCHANGED <<src_life, dst_life, size_wire, key_wire, value_wire, answerer, store, put_keys, read, mig_ended>>

Asker ==
  \/ \E k \in Keys : AskPut(k) \/ AskLocal(k) \/ AskSize(k)
  \/ AskKey \/ AskRecv \/ AskTimedOut \/ AskEnd

==============================================================================
