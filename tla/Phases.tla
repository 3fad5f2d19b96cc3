-------------------------------- MODULE Phases --------------------------------
(***************************************************************************)
(* The two programs from end to end: the source listens, accepts and sends *)
(* the metadata of its files over main_fd; both start a workload thread    *)
(* (RemoteGet) beside the transfer of the files; the destination sends the *)
(* last flag when its database has them all; both join their threads and   *)
(* close their sockets.                                                    *)
(*                                                                         *)
(* The transfer itself is what FileMigration promises: files arrive in     *)
(* order, one step each.  A process may exit at any step.                  *)
(***************************************************************************)
EXTENDS RemoteGet

CONSTANTS
  NumConns,    \* connections OpenSocket makes: main_fd, wl_fds, sst_fds
  FileKeys,    \* the keys of each file, in the order the source lists files
  LevelZero    \* the files that are at level 0 on the source

NumFiles == Len(FileKeys)

\* Bound on an uninitialised num_files: one number stands for all the larger.
MaxNum == NumFiles + 1

ASSUME PhasesAssumption ==
  /\ NumConns \in Nat \ {0}
  /\ FileKeys \in Seq(SUBSET (Keys \ Missing)) /\ LevelZero \subseteq 1 .. NumFiles

VARIABLES
  src,       \* the source's main thread: pc, n = sockets, then files sent
  dst,       \* the destination's: pc, n = sockets, then files announced, num = num_files
  listening, \* sockets of the source that listen
  to_dst,    \* main_fd, to the destination: the options, or the data of file n
  to_src,    \* main_fd, to the source: flags, named after what they answer
  sent,      \* files the source's transfer has sent
  moved      \* files the destination's database has

mainVars == <<src, dst, listening, to_dst, to_src, sent, moved>>
phaseVars == <<src_life, dst_life, workloadVars, mig_ended, mainVars>>

PhasesInit ==
  /\ RemoteInit
  /\ src = [pc |-> "listen", n |-> 0]
  /\ dst = [pc |-> "connect", n |-> 0, num |-> 0]
  /\ listening = 0
  /\ to_dst = <<>> /\ to_src = <<>>
  /\ sent = 0 /\ moved = 0

Message(of, n) == [of |-> of, n |-> n]

SrcAt(pc) == src_life = "running" /\ src.pc = pc
DstAt(pc) == dst_life = "running" /\ dst.pc = pc

-------------------------------------------------------------------------------
(* The source: StartInstance *)

\* A slip: one socket too many.
ListenOneMore ==
  /\ SrcAt("listen")
  /\ listening' = listening + 1
  /\ src' = IF listening = NumConns THEN [src EXCEPT !.pc = "accept"] ELSE src
  /\ UNCHANGED <<src_life, dst_life, workloadVars, mig_ended, dst, to_dst, to_src, sent, moved>>

ListenSocket ==
  /\ SrcAt("listen")
  /\ listening' = listening + 1
  /\ src' = IF listening + 1 = NumConns THEN [src EXCEPT !.pc = "accept"] ELSE src
  /\ UNCHANGED <<src_life, dst_life, workloadVars, mig_ended, dst, to_dst, to_src, sent, moved>>

AcceptSocket ==
  /\ SrcAt("accept")
  /\ src.n < dst.n \/ dst.pc # "connect"
  /\ src' = IF src.n + 1 = NumConns THEN [pc |-> "options", n |-> 0] ELSE [src EXCEPT !.n = @ + 1]
  /\ UNCHANGED <<src_life, dst_life, workloadVars, mig_ended, dst, listening, to_dst, to_src, sent, moved>>

\* DB::Open and GetSstFileData come before it, and keep to themselves.
SendOptions ==
  /\ SrcAt("options")
  /\ Sent(to_dst, to_dst', <<Message("options", 0)>>, dst_life, src_life, src_life')
  /\ src' = [src EXCEPT !.pc = "options_flag"]
  /\ UNCHANGED <<dst_life, workloadVars, mig_ended, dst, listening, to_src, sent, moved>>

\* A slip: the flag is not awaited.
SendSstFileDataAhead ==
  /\ SrcAt("meta")
  /\ src.n < NumFiles
  /\ Sent(to_dst, to_dst', <<Message("file", src.n)>>, dst_life, src_life, src_life')
  /\ src' = [src EXCEPT !.n = @ + 1]
  /\ UNCHANGED <<dst_life, workloadVars, mig_ended, dst, listening, to_src, sent, moved>>

SendSstFileData ==
  /\ SrcAt("meta")
  /\ src.n < NumFiles
  /\ Sent(to_dst, to_dst', <<Message("file", src.n)>>, dst_life, src_life, src_life')
  /\ src' = [src EXCEPT !.pc = "meta_flag"]
  /\ UNCHANGED <<dst_life, workloadVars, mig_ended, dst, listening, to_src, sent, moved>>

\* Where the source goes on after a flag.
AfterFlag ==
  CASE src.pc = "options_flag" -> [src EXCEPT !.pc = "meta"]
    [] src.pc = "meta_flag" -> [src EXCEPT !.pc = "meta", !.n = @ + 1]
    [] src.pc = "last_flag" -> [src EXCEPT !.pc = "join"]

\* recv of 0 bytes leaves the flag as it was, uninitialised: it may be 1.
RecvFlag ==
  /\ SrcAt("options_flag") \/ SrcAt("meta_flag") \/ SrcAt("last_flag")
  /\ \/ to_src # <<>> /\ to_src' = Tail(to_src) /\ src' = AfterFlag /\ UNCHANGED src_life
     \/ /\ to_src = <<>> /\ dst_life # "running"
        /\ UNCHANGED to_src
        /\ \/ src' = AfterFlag /\ UNCHANGED src_life
           \/ src' = src /\ src_life' = "exited"
  /\ UNCHANGED <<dst_life, workloadVars, mig_ended, dst, listening, to_dst, sent, moved>>

SrcStartThreads ==
  /\ SrcAt("meta")
  /\ src.n = NumFiles
  /\ src' = [src EXCEPT !.pc = "transfer"]
  /\ answerer' = [answerer EXCEPT !.pc = "size"]
  /\ UNCHANGED <<src_life, dst_life, size_wire, key_wire, value_wire, asker, store, put_keys,
                 read, mig_ended, dst, listening, to_dst, to_src, sent, moved>>

\* TransferSstFiles, file by file; with nobody to receive them it ends or dies
\* (SourceNotStranded of SstTransfer), unless a file holds a deletion.
SrcTransfer ==
  /\ SrcAt("transfer")
  /\ sent < NumFiles
  /\ \/ sent' = sent + 1 /\ UNCHANGED src_life
     \/ dst_life # "running" /\ src_life' = "exited" /\ UNCHANGED sent
  /\ UNCHANGED <<dst_life, workloadVars, mig_ended, src, dst, listening, to_dst, to_src, moved>>

\* The next file holds a deletion: SendKVPairs asks for a pair that never comes
\* (OnlyDeletionsStarve of SstTransfer) and is never joined.
SrcTransferStarves ==
  /\ SrcAt("transfer")
  /\ sent < NumFiles
  /\ "deletion" \in MayFail
  /\ src' = [src EXCEPT !.pc = "spin"]
  /\ UNCHANGED <<src_life, dst_life, workloadVars, mig_ended, dst, listening, to_dst, to_src, sent, moved>>

SrcTransferJoined ==
  /\ SrcAt("transfer")
  /\ sent = NumFiles
  /\ src' = [src EXCEPT !.pc = "last_flag"]
  /\ UNCHANGED <<src_life, dst_life, workloadVars, mig_ended, dst, listening, to_dst, to_src, sent, moved>>

\* A slip: the workload thread is not joined.
SrcCloseNow ==
  /\ SrcAt("join")
  /\ src_life' = "ended"
  /\ UNCHANGED <<dst_life, workloadVars, mig_ended, src, dst, listening, to_dst, to_src, sent, moved>>

\* The workload thread is joined, then CloseSocket.
SrcClose ==
  /\ SrcAt("join")
  /\ answerer.pc = "ended"
  /\ src_life' = "ended"
  /\ UNCHANGED <<dst_life, workloadVars, mig_ended, src, dst, listening, to_dst, to_src, sent, moved>>

SrcMain ==
  \/ ListenSocket \/ AcceptSocket \/ SendOptions \/ SendSstFileData \/ RecvFlag
  \/ SrcStartThreads \/ SrcTransfer \/ SrcTransferStarves \/ SrcTransferJoined \/ SrcClose

-------------------------------------------------------------------------------
(* The destination: StartInstance *)

\* A connect that fails is retried after a second, for ever.
ConnectSocket ==
  /\ DstAt("connect")
  /\ src_life = "running"
  /\ dst.n < listening
  /\ dst' = IF dst.n + 1 = NumConns THEN [dst EXCEPT !.pc = "options", !.n = 0]
            ELSE [dst EXCEPT !.n = @ + 1]
  /\ UNCHANGED <<src_life, dst_life, workloadVars, mig_ended, src, listening, to_dst, to_src, sent, moved>>

SendFlag(of, n) == Sent(to_src, to_src', <<Message(of, n)>>, src_life, dst_life, dst_life')

\* recv of 0 bytes is no error: num_files is then whatever was there.  (Of a
\* negative one write_finished.resize ends the process; SendFlag may do so
\* before, as nobody is there.)
RecvOptions ==
  /\ DstAt("options")
  /\ \E num \in 0 .. MaxNum :
       /\ \/ to_dst # <<>> /\ num = NumFiles /\ to_dst' = Tail(to_dst)
          \/ to_dst = <<>> /\ src_life # "running" /\ UNCHANGED to_dst
       /\ dst' = [dst EXCEPT !.pc = "meta", !.num = num]
  /\ SendFlag("options", 0)
  /\ UNCHANGED <<src_life, workloadVars, mig_ended, src, listening, sent, moved>>

\* DB::Open comes first.  RecvSstFileData, one file.
RecvSstFileData ==
  /\ DstAt("meta")
  /\ dst.n < dst.num
  /\ \/ to_dst # <<>> /\ to_dst' = Tail(to_dst)
     \/ to_dst = <<>> /\ src_life # "running" /\ UNCHANGED to_dst
  /\ dst' = [dst EXCEPT !.n = @ + 1]
  /\ SendFlag("file", dst.n)
  /\ UNCHANGED <<src_life, workloadVars, mig_ended, src, listening, sent, moved>>

\* ReturnFilePaths and SetOptions come first.
DstStartThreads ==
  /\ DstAt("meta")
  /\ dst.n = dst.num
  /\ dst' = [dst EXCEPT !.pc = "transfer"]
  /\ asker' = [asker EXCEPT !.pc = "loop"]
  /\ UNCHANGED <<src_life, dst_life, size_wire, key_wire, value_wire, answerer, store, put_keys,
                 read, mig_ended, src, listening, to_dst, to_src, sent, moved>>

\* A file is ingested: a Put hides it, unless it goes to level 0 (IngestJob).
DstTransfer ==
  /\ DstAt("transfer")
  /\ moved < sent /\ moved < dst.num
  /\ moved' = moved + 1
  /\ store' = [k \in Keys |->
       IF k \in FileKeys[moved'] /\ (store[k] = Nothing \/ moved' \in LevelZero) THEN ValueOf(k)
       ELSE store[k]]
  /\ UNCHANGED <<src_life, dst_life, size_wire, key_wire, value_wire, answerer, asker, put_keys,
                 read, mig_ended, src, dst, listening, to_dst, to_src, sent>>

\* The source is gone with files to come: the transfer takes the end of the
\* stream for a file, spins, or ends the process (DestinationTold of
\* SstTransfer).
DstTransferEof ==
  /\ DstAt("transfer")
  /\ moved = sent /\ moved < dst.num /\ src_life # "running"
  /\ \/ moved' = moved + 1 /\ sent' = sent + 1 /\ UNCHANGED <<dst, dst_life>>
     \/ dst' = [dst EXCEPT !.pc = "spin"] /\ UNCHANGED <<moved, sent, dst_life>>
     \/ dst_life' = "exited" /\ UNCHANGED <<moved, sent, dst>>
  /\ UNCHANGED <<src_life, workloadVars, mig_ended, src, listening, to_dst, to_src>>

\* A slip: mig_ended is not set.
DstTransferEndQuietly ==
  /\ DstAt("transfer")
  /\ moved = dst.num
  /\ dst' = [dst EXCEPT !.pc = "flag"]
  /\ UNCHANGED <<src_life, dst_life, workloadVars, mig_ended, src, listening, to_dst, to_src, sent, moved>>

DstTransferEnd ==
  /\ DstAt("transfer")
  /\ moved = dst.num
  /\ mig_ended' = TRUE
  /\ dst' = [dst EXCEPT !.pc = "flag"]
  /\ UNCHANGED <<src_life, dst_life, workloadVars, src, listening, to_dst, to_src, sent, moved>>

DstLastFlag ==
  /\ DstAt("flag")
  /\ SendFlag("end", 0)
  /\ dst' = [dst EXCEPT !.pc = "join"]
  /\ UNCHANGED <<src_life, workloadVars, mig_ended, src, listening, to_dst, sent, moved>>

\* The workload thread is joined, SetOptions, CloseSocket.
DstClose ==
  /\ DstAt("join")
  /\ asker.pc = "ended"
  /\ dst_life' = "ended"
  /\ UNCHANGED <<src_life, workloadVars, mig_ended, src, dst, listening, to_dst, to_src, sent, moved>>

DstMain ==
  \/ ConnectSocket \/ RecvOptions \/ RecvSstFileData \/ DstStartThreads
  \/ DstTransfer \/ DstTransferEof \/ DstTransferEnd \/ DstLastFlag \/ DstClose

-------------------------------------------------------------------------------

\* AssertStatus, exit(EXIT_FAILURE) or a kill, in any thread.
SrcExits ==
  /\ "exit" \in MayFail /\ src_life = "running"
  /\ src_life' = "exited"
  /\ UNCHANGED <<dst_life, workloadVars, mig_ended, mainVars>>

DstExits ==
  /\ "exit" \in MayFail /\ dst_life = "running"
  /\ dst_life' = "exited"
  /\ UNCHANGED <<src_life, workloadVars, mig_ended, mainVars>>

PhasesNext ==
  \/ SrcMain \/ DstMain \/ SrcExits \/ DstExits
  \/ Answerer /\ UNCHANGED mainVars
  \/ Asker /\ UNCHANGED mainVars

\* Every thread that can go on does; no connect comes before a listen.
PhasesSpec ==
  /\ PhasesInit /\ [][PhasesNext]_phaseVars
  /\ WF_phaseVars(SrcMain) /\ WF_phaseVars(DstMain)
  /\ WF_phaseVars(Answerer /\ UNCHANGED mainVars)
  /\ WF_phaseVars(Asker /\ UNCHANGED mainVars)

-------------------------------------------------------------------------------

PhasesTypeOK ==
  /\ src_life \in {"running", "exited", "ended"} /\ dst_life \in {"running", "exited", "ended"}
  /\ answerer.pc \in {"start", "size", "key", "ended"} /\ Len(answerer.key) \in 0 .. KeyPieces
  /\ asker.pc \in {"start", "loop", "key", "recv", "ended"} /\ Len(asker.value) \in 0 .. ValuePieces
  /\ asker.key \in Keys /\ put_keys \subseteq Keys /\ mig_ended \in BOOLEAN
  /\ \A k \in Keys : store[k] \in {Nothing, PutValue, ValueOf(k)}
  /\ src.pc \in {"listen", "accept", "options", "options_flag", "meta", "meta_flag", "transfer",
                 "spin", "last_flag", "join"}
  /\ src.n \in 0 .. NumConns + NumFiles
  /\ dst.pc \in {"connect", "options", "meta", "transfer", "spin", "flag", "join"}
  /\ dst.num \in 0 .. MaxNum
  /\ listening \in 0 .. NumConns
  /\ sent \in 0 .. MaxNum /\ moved \in 0 .. sent

\* The threads of main_fd go in lock step although neither side says what it
\* sends (socket.cc, RecvFlag and SendFlag): one message at most is on its way,
\* what the destination reads next is what the source sent for it, and the flag
\* the source reads answers what it last sent.
MainInStep ==
  src_life = "running" /\ dst_life = "running" =>
    /\ Len(to_dst) + Len(to_src) <= 1
    /\ \A i \in DOMAIN to_dst :
         CASE to_dst[i].of = "options" -> dst.pc \in {"connect", "options"}
           [] to_dst[i].of = "file" -> dst.pc = "meta" /\ to_dst[i].n = dst.n
    /\ \A i \in DOMAIN to_src :
         CASE to_src[i].of = "options" -> src.pc = "options_flag"
           [] to_src[i].of = "file" -> src.pc = "meta_flag" /\ to_src[i].n = src.n
           [] to_src[i].of = "end" -> src.pc \in {"transfer", "last_flag"} /\ sent = NumFiles

\* While the destination waits for an answer the source still answers: its
\* workload thread and its sockets outlive the last question, though the last
\* flag passes on another connection (src main.cc:79-85, dst main.cc:110-114).
SourceOutlivesQuestions ==
  dst_life = "running" /\ asker.pc \in {"key", "recv"} /\ src_life # "exited" =>
    src_life = "running" /\ answerer.pc # "ended"

\* Between two Gets nothing of a question or of an answer is left on a wire, and
\* a Get has returned a whole value, of the key it was about: a value the
\* workload has put, or the source's (MyGet, src db.h:428-467, dst db.h:440-463,
\* where sizes, keys and answers are told apart by their order alone).
ReadsRight ==
  dst_life = "running" /\ asker.pc \in {"loop", "ended"} =>
    /\ src_life = "running" => size_wire = <<>> /\ key_wire = <<>> /\ value_wire = <<>>
    /\ read.value # Nothing =>
         \/ read.value = PutValue /\ read.key \in put_keys
         \/ read.value = ValueOf(read.key) /\ read.key \notin Missing

\* One program waits for another that never came, or that left before the
\* connections were made.
LeftAlone ==
  \/ src.pc \in {"listen", "accept"} /\ dst_life # "running"
  \/ dst.pc = "connect" /\ src_life # "running"

\* Both programs end or exit (src main.cc:84 and dst main.cc:114 join threads
\* that end only when the other side does something), unless one was left
\* alone, a transfer spins after the source's death or for a file with a
\* deletion, or the source's own Get failed and its answer was empty.
BothEnd ==
  <>[](\/ src_life # "running" /\ dst_life # "running"
       \/ LeftAlone \/ dst.pc = "spin" \/ src.pc = "spin" \/ answerer.silent)

==============================================================================
