----------------------------- MODULE PhasesProofs -----------------------------
(***************************************************************************)
(* Proofs about the two programs from end to end: types, the lock step of  *)
(* the main threads on main_fd, the order in which the programs end, and   *)
(* the remote reads.                                                       *)
(***************************************************************************)
EXTENDS PhasesInvariants, SequenceTheorems, TLAPS

-------------------------------------------------------------------------------
(* The operators of the model *)

LEMMA FilesCount == NumFiles \in Nat /\ MaxNum \in Nat /\ MaxNum = NumFiles + 1
<1>1. NumFiles \in Nat
      BY PhasesAssumption, LenProperties DEF NumFiles
<1> QED
  BY <1>1 DEF MaxNum

\* A key, and an answer, are sequences of their parts.
LEMMA KeyOfType ==
  ASSUME NEW k \in Keys
  PROVE  /\ KeyOf(k) \in Seq(KeyParts) /\ Len(KeyOf(k)) = KeyPieces
         /\ \A l \in Keys : KeyOf(l) = KeyOf(k) => l = k
<1>1. KeyPieces \in Nat /\ 1 \in 1 .. KeyPieces
      BY RemoteAssumption
<1>2. \A i \in 1 .. KeyPieces : <<k, "key", i>> \in KeyParts
      BY DEF KeyParts
<1>3. KeyOf(k) \in [1 .. KeyPieces -> KeyParts]
      BY <1>2 DEF KeyOf
<1>4. KeyOf(k) \in Seq(KeyParts) /\ Len(KeyOf(k)) = KeyPieces
      BY <1>1, <1>3, IsASeq, LenProperties
<1>5. ASSUME NEW l \in Keys, KeyOf(l) = KeyOf(k)
      PROVE  l = k
  <2>1. KeyOf(l)[1] = <<l, "key", 1>> /\ KeyOf(k)[1] = <<k, "key", 1>>
        BY <1>1 DEF KeyOf
  <2> QED
        BY <1>5, <2>1
<1> QED
  BY <1>4, <1>5

LEMMA AnswerType ==
  ASSUME NEW k \in Keys
  PROVE  /\ ValueOf(k) \in Seq(AnswerParts) /\ Len(ValueOf(k)) = ValuePieces
         /\ NotFound \in Seq(AnswerParts) /\ Len(NotFound) = NotFoundPieces
         /\ NotFoundPieces < ValuePieces /\ ValuePieces \in Nat
<1>1. ValuePieces \in Nat /\ NotFoundPieces \in Nat /\ NotFoundPieces < ValuePieces
      BY RemoteAssumption DEF NotFoundPieces
<1>2. ValueOf(k) \in [1 .. ValuePieces -> AnswerParts]
      BY DEF ValueOf, AnswerParts
<1>3. NotFound \in [1 .. NotFoundPieces -> AnswerParts]
      BY DEF NotFound, AnswerParts
<1> QED
  BY <1>1, <1>2, <1>3, IsASeq, LenProperties

\* What a recv takes and what it leaves are the wire.
LEMMA ChunkProperties ==
  ASSUME NEW S, NEW wire \in Seq(S), NEW room \in Nat, NEW chunk \in Chunks(wire, room)
  PROVE  /\ chunk \in Seq(S) /\ Rest(wire, chunk) \in Seq(S)
         /\ Len(chunk) \in 1 .. room /\ Len(chunk) <= Len(wire)
         /\ Len(Rest(wire, chunk)) = Len(wire) - Len(chunk)
         /\ chunk \o Rest(wire, chunk) = wire
<1>1. Len(wire) \in Nat
      BY LenProperties
<1>2. PICK n \in 1 .. (IF Len(wire) < room THEN Len(wire) ELSE room) : chunk = SubSeq(wire, 1, n)
      BY DEF Chunks
<1>3. n \in 1 .. Len(wire) /\ n \in 1 .. room
      BY <1>1, <1>2
<1>4. chunk \in Seq(S) /\ Len(chunk) = n
      BY <1>1, <1>2, <1>3, SubSeqProperties
<1>5. Rest(wire, chunk) = SubSeq(wire, n + 1, Len(wire))
      BY <1>4 DEF Rest
<1>6. Rest(wire, chunk) \in Seq(S) /\ Len(Rest(wire, chunk)) = Len(wire) - n
      BY <1>1, <1>3, <1>5, SubSeqProperties
<1>7. chunk \o Rest(wire, chunk) = SubSeq(wire, 1, Len(wire))
      BY <1>1, <1>2, <1>3, <1>5, ConcatAdjacentSubSeq
<1>8. SubSeq(wire, 1, Len(wire)) = wire
      BY SubSeqFull
<1> QED
  BY <1>3, <1>4, <1>6, <1>7, <1>8

LEMMA OneMessage ==
  ASSUME NEW m
  PROVE  /\ Len(<<m>>) = 1 /\ DOMAIN <<m>> = {1} /\ <<m>>[1] = m
         /\ Len(<<>>) = 0 /\ DOMAIN <<>> = {}
  OBVIOUS

-------------------------------------------------------------------------------
(* Types *)

LEMMA MainTypesInit == PhasesInit => MainTypes /\ SrcCounts
<1> SUFFICES ASSUME PhasesInit
             PROVE  MainTypes /\ SrcCounts
    OBVIOUS
<1>1. NumFiles \in Nat /\ MaxNum \in Nat /\ NumConns \in Nat \ {0}
      BY FilesCount, PhasesAssumption
<1>2. to_dst \in Seq([of : {"options", "file"}, n : Nat])
      /\ to_src \in Seq([of : {"options", "file", "end"}, n : Nat])
      BY EmptySeq DEF PhasesInit
<1>3. src \in [pc : SrcPhases, n : Nat] /\ dst \in [pc : DstPhases, n : Nat, num : 0 .. MaxNum]
      BY <1>1 DEF PhasesInit, SrcPhases, DstPhases
<1>4. SrcCounts
      BY <1>1 DEF PhasesInit, SrcCounts
<1>5. /\ src_life \in Lives /\ dst_life \in Lives /\ mig_ended \in BOOLEAN
      /\ sent \in 0 .. MaxNum /\ moved \in 0 .. sent /\ (moved < sent => sent <= NumFiles)
  <2>1. src_life = "running" /\ dst_life = "running" /\ mig_ended = FALSE
        BY DEF PhasesInit, RemoteInit
  <2>2. sent = 0 /\ moved = 0
        BY DEF PhasesInit
  <2> QED
    <3>1. src_life \in Lives /\ dst_life \in Lives /\ mig_ended \in BOOLEAN
          BY <2>1 DEF Lives
    <3>2. sent \in 0 .. MaxNum /\ moved \in 0 .. sent /\ (moved < sent => sent <= NumFiles)
          BY <1>1, <2>2
    <3> QED
          BY <3>1, <3>2
<1> QED
  BY <1>2, <1>3, <1>4, <1>5 DEF MainTypes

\* The steps of the source's main thread.
LEMMA SrcMainTypes == MainTypes /\ SrcCounts /\ SrcMain => MainTypes' /\ SrcCounts'
<1> SUFFICES ASSUME MainTypes, SrcCounts, SrcMain
             PROVE  MainTypes' /\ SrcCounts'
    OBVIOUS
<1> DEFINE ToDst == [of : {"options", "file"}, n : Nat]
<1>1. /\ NumFiles \in Nat /\ MaxNum = NumFiles + 1 /\ NumConns \in Nat \ {0} /\ listening \in 0 .. NumConns
      /\ src \in [pc : SrcPhases, n : Nat] /\ src.n \in Nat
      /\ to_dst \in Seq(ToDst) /\ src_life \in Lives /\ dst_life \in Lives
      /\ sent \in 0 .. MaxNum /\ moved \in 0 .. sent /\ (moved < sent => sent <= NumFiles)
      BY FilesCount, PhasesAssumption DEF MainTypes, SrcCounts
<1>a. src \in [pc : SrcPhases, n : Nat]
      BY DEF MainTypes
<1>b. listening \in Nat /\ NumConns \in Nat /\ listening <= NumConns
      BY <1>1
<1>2. CASE ListenSocket
  <2>1. /\ src_life' = src_life /\ dst_life' = dst_life /\ dst' = dst /\ to_dst' = to_dst
        /\ to_src' = to_src /\ sent' = sent /\ moved' = moved /\ mig_ended' = mig_ended
        BY <1>2 DEF ListenSocket
  <2>2. src.pc = "listen" /\ src.n = 0 /\ listening < NumConns /\ listening' = listening + 1
        BY <1>2 DEF ListenSocket, SrcAt, SrcCounts
  <2>3. \/ src' = src /\ listening + 1 # NumConns
        \/ src' = [src EXCEPT !.pc = "accept"] /\ listening + 1 = NumConns
        BY <1>2 DEF ListenSocket
  <2>4. src' \in [pc : SrcPhases, n : Nat]
        BY <1>1, <2>3 DEF SrcPhases
  <2>5. /\ src'.n = 0
        /\ \/ src'.pc = "listen" /\ listening' < NumConns
           \/ src'.pc = "accept" /\ listening' = NumConns
    <3>1. CASE src' = src /\ listening + 1 # NumConns
          BY <1>b, <2>2, <3>1
    <3>2. CASE src' = [src EXCEPT !.pc = "accept"] /\ listening + 1 = NumConns
      <4>1. src'.pc = "accept" /\ src'.n = src.n
            BY <1>a, <3>2
      <4> QED
            BY <2>2, <3>2, <4>1
    <3> QED
          BY <2>3, <3>1, <3>2
  <2> QED
        BY <1>1, <2>1, <2>2, <2>4, <2>5 DEF MainTypes, SrcCounts
<1>3. CASE AcceptSocket
  <2>1. /\ src_life' = src_life /\ dst_life' = dst_life /\ dst' = dst /\ to_dst' = to_dst
        /\ to_src' = to_src /\ sent' = sent /\ moved' = moved /\ mig_ended' = mig_ended
        /\ listening' = listening
        BY <1>3 DEF AcceptSocket
  <2>2. src.pc = "accept" /\ src.n < NumConns
        BY <1>3 DEF AcceptSocket, SrcAt, SrcCounts
  <2>3. \/ src' = [pc |-> "options", n |-> 0]
        \/ src' = [src EXCEPT !.n = @ + 1] /\ src.n + 1 # NumConns
        BY <1>3 DEF AcceptSocket
  <2>4. src' \in [pc : SrcPhases, n : Nat]
        BY <1>1, <2>3 DEF SrcPhases
  <2>5. \/ src'.pc = "options" /\ src'.n = 0
        \/ src'.pc = "accept" /\ src'.n < NumConns
        BY <1>1, <2>2, <2>3
  <2> QED
        BY <1>1, <2>1, <2>2, <2>4, <2>5 DEF MainTypes, SrcCounts
<1>4. CASE SendOptions \/ SendSstFileData
  <2>1. /\ dst_life' = dst_life /\ dst' = dst /\ to_src' = to_src /\ sent' = sent
        /\ moved' = moved /\ mig_ended' = mig_ended /\ listening' = listening
        BY <1>4 DEF SendOptions, SendSstFileData
  <2>2. PICK m \in ToDst : Sent(to_dst, to_dst', <<m>>, dst_life, src_life, src_life')
        BY <1>1, <1>4 DEF SendOptions, SendSstFileData, Message
  <2>3. to_dst' \in Seq(ToDst) /\ src_life' \in Lives
    <3>1. <<m>> \in Seq(ToDst)
          OBVIOUS
    <3>2. to_dst \o <<m>> \in Seq(ToDst)
          BY <1>1, <3>1, ConcatProperties
    <3> QED
          BY <1>1, <2>2, <3>2 DEF Sent, Lives
  <2>4. \/ src.pc = "options" /\ src' = [src EXCEPT !.pc = "options_flag"]
        \/ src.pc = "meta" /\ src.n < NumFiles /\ src' = [src EXCEPT !.pc = "meta_flag"]
        BY <1>4 DEF SendOptions, SendSstFileData, SrcAt
  <2>5. src' \in [pc : SrcPhases, n : Nat]
        BY <1>1, <2>4 DEF SrcPhases
  <2>6. /\ src'.n = src.n
        /\ \/ src.pc = "options" /\ src'.pc = "options_flag"
           \/ src.n < NumFiles /\ src'.pc = "meta_flag"
        BY <1>a, <2>4
  <2> QED
        BY <1>1, <2>1, <2>3, <2>4, <2>5, <2>6 DEF MainTypes, SrcCounts
<1>5. CASE RecvFlag
  <2>1. /\ dst_life' = dst_life /\ dst' = dst /\ to_dst' = to_dst /\ sent' = sent
        /\ moved' = moved /\ mig_ended' = mig_ended /\ listening' = listening
        BY <1>5 DEF RecvFlag
  <2>2. to_src' \in Seq([of : {"options", "file", "end"}, n : Nat]) /\ src_life' \in Lives
    <3>1. to_src \in Seq([of : {"options", "file", "end"}, n : Nat])
          BY DEF MainTypes
    <3>2. to_src # <<>> => Tail(to_src) \in Seq([of : {"options", "file", "end"}, n : Nat])
          BY <3>1, HeadTailProperties
    <3> QED
          BY <1>1, <1>5, <3>1, <3>2 DEF RecvFlag, Lives
  <2>3. src.pc \in {"options_flag", "meta_flag", "last_flag"} /\ src' \in {src, AfterFlag}
        BY <1>5 DEF RecvFlag, SrcAt
  <2>4. \/ src' = src
        \/ src.pc = "options_flag" /\ src' = [src EXCEPT !.pc = "meta"]
        \/ src.pc = "meta_flag" /\ src' = [src EXCEPT !.pc = "meta", !.n = @ + 1]
        \/ src.pc = "last_flag" /\ src' = [src EXCEPT !.pc = "join"]
        BY <2>3 DEF AfterFlag
  <2>a. \/ src' = src
        \/ src'.pc = "meta" /\ src'.n = src.n /\ src.pc = "options_flag"
        \/ src'.pc = "meta" /\ src'.n = src.n + 1 /\ src.pc = "meta_flag"
        \/ src'.pc = "join" /\ src'.n = src.n /\ src.pc = "last_flag"
    <3>1. CASE src' = src
          BY <3>1
    <3>2. CASE src.pc = "options_flag" /\ src' = [src EXCEPT !.pc = "meta"]
          BY <1>a, <3>2
    <3>3. CASE src.pc = "meta_flag" /\ src' = [src EXCEPT !.pc = "meta", !.n = @ + 1]
          BY <1>a, <3>3
    <3>4. CASE src.pc = "last_flag" /\ src' = [src EXCEPT !.pc = "join"]
          BY <1>a, <3>4
    <3> QED
          BY <2>4, <3>1, <3>2, <3>3, <3>4
  <2>5. src' \in [pc : SrcPhases, n : Nat]
    <3>1. src.n \in Nat /\ src.n + 1 \in Nat
          BY <1>1
    <3> QED
          BY <1>a, <2>4, <3>1, Zenon DEF SrcPhases
  <2>6. SrcCounts'
        BY <1>1, <2>1, <2>a DEF SrcCounts
  <2> QED
        BY <1>1, <2>1, <2>2, <2>5, <2>6 DEF MainTypes
<1>6. CASE SrcStartThreads \/ SrcTransferStarves \/ SrcTransferJoined
  <2>1. /\ src_life' = src_life /\ dst_life' = dst_life /\ dst' = dst /\ to_dst' = to_dst
        /\ to_src' = to_src /\ sent' = sent /\ moved' = moved /\ mig_ended' = mig_ended
        /\ listening' = listening
        BY <1>6 DEF SrcStartThreads, SrcTransferStarves, SrcTransferJoined
  <2>2. /\ src.pc \in {"meta", "transfer"} /\ src.n = NumFiles
        /\ \E pc \in {"transfer", "spin", "last_flag"} : src' = [src EXCEPT !.pc = pc]
        BY <1>6 DEF SrcStartThreads, SrcTransferStarves, SrcTransferJoined, SrcAt, SrcCounts
  <2>3. /\ src' \in [pc : SrcPhases, n : Nat]
        /\ src'.pc \in {"transfer", "spin", "last_flag"} /\ src'.n = NumFiles
        BY <1>1, <2>2 DEF SrcPhases
  <2> QED
        BY <1>1, <2>1, <2>2, <2>3 DEF MainTypes, SrcCounts
<1>7. CASE SrcTransfer \/ SrcClose
  <2>1. /\ dst_life' = dst_life /\ dst' = dst /\ to_dst' = to_dst /\ src' = src
        /\ to_src' = to_src /\ moved' = moved /\ mig_ended' = mig_ended
        /\ listening' = listening
        BY <1>7 DEF SrcTransfer, SrcClose
  <2>2. /\ src_life' \in Lives /\ sent' \in 0 .. MaxNum /\ moved \in 0 .. sent'
        /\ moved < sent' => sent' <= NumFiles
        BY <1>1, <1>7 DEF SrcTransfer, SrcClose, Lives
  <2> QED
        BY <1>1, <2>1, <2>2 DEF MainTypes, SrcCounts
<1> QED
  BY <1>2, <1>3, <1>4, <1>5, <1>6, <1>7 DEF SrcMain

\* The steps of the destination's main thread.
LEMMA DstMainTypes == MainTypes /\ SrcCounts /\ DstMain => MainTypes' /\ SrcCounts'
<1> SUFFICES ASSUME MainTypes, SrcCounts, DstMain
             PROVE  MainTypes' /\ SrcCounts'
    OBVIOUS
<1> DEFINE ToSrc == [of : {"options", "file", "end"}, n : Nat]
           Dst == [pc : DstPhases, n : Nat, num : 0 .. MaxNum]
<1>1. /\ NumFiles \in Nat /\ MaxNum = NumFiles + 1
      /\ sent \in 0 .. MaxNum /\ moved \in 0 .. sent /\ (moved < sent => sent <= NumFiles)
      BY FilesCount DEF MainTypes
<1>2. dst \in Dst /\ dst.n \in Nat /\ dst.n + 1 \in Nat /\ dst.num \in 0 .. MaxNum
      BY DEF MainTypes
<1>3. to_src \in Seq(ToSrc) /\ to_dst \in Seq([of : {"options", "file"}, n : Nat])
      BY DEF MainTypes
<1>4. src_life \in Lives /\ dst_life \in Lives /\ mig_ended \in BOOLEAN
      BY DEF MainTypes
<1>5. src_life' = src_life /\ src' = src /\ listening' = listening
      BY DEF DstMain, ConnectSocket, RecvOptions, RecvSstFileData, DstStartThreads, DstTransfer,
             DstTransferEof, DstTransferEnd, DstLastFlag, DstClose
<1>6. SrcCounts'
      BY <1>5 DEF SrcCounts
<1>7. ASSUME NEW of \in {"options", "file", "end"}, NEW n \in Nat, SendFlag(of, n)
      PROVE  to_src' \in Seq(ToSrc) /\ dst_life' \in Lives
  <2>1. <<Message(of, n)>> \in Seq(ToSrc)
        BY DEF Message
  <2>2. to_src \o <<Message(of, n)>> \in Seq(ToSrc)
        BY <1>3, <2>1, ConcatProperties
  <2> QED
        BY <1>3, <1>4, <1>7, <2>2 DEF SendFlag, Sent, Lives
<1>8. to_dst' \in Seq([of : {"options", "file"}, n : Nat])
  <2>1. to_dst' = to_dst \/ (to_dst # <<>> /\ to_dst' = Tail(to_dst))
        BY DEF DstMain, ConnectSocket, RecvOptions, RecvSstFileData, DstStartThreads, DstTransfer,
               DstTransferEof, DstTransferEnd, DstLastFlag, DstClose
  <2>2. to_dst # <<>> => Tail(to_dst) \in Seq([of : {"options", "file"}, n : Nat])
        BY <1>3, HeadTailProperties
  <2> QED
        BY <1>3, <2>1, <2>2
<1>9. to_src' \in Seq(ToSrc) /\ dst_life' \in Lives
  <2>1. CASE RecvOptions
        BY <1>7, <2>1 DEF RecvOptions
  <2>2. CASE RecvSstFileData
        BY <1>2, <1>7, <2>2 DEF RecvSstFileData
  <2>3. CASE DstLastFlag
        BY <1>7, <2>3 DEF DstLastFlag
  <2>4. CASE ConnectSocket \/ DstStartThreads \/ DstTransfer \/ DstTransferEof \/ DstTransferEnd
             \/ DstClose
    <3>1. to_src' = to_src /\ dst_life' \in {dst_life, "exited", "ended"}
          BY <2>4 DEF ConnectSocket, DstStartThreads, DstTransfer, DstTransferEof, DstTransferEnd,
                      DstClose
    <3> QED
          BY <1>3, <1>4, <3>1 DEF Lives
  <2> QED
        BY <2>1, <2>2, <2>3, <2>4 DEF DstMain
<1>10. dst' \in Dst
  <2>1. CASE dst' = dst
        BY <1>2, <2>1
  <2>2. CASE \E pc \in DstPhases : dst' = [dst EXCEPT !.pc = pc]
        BY <1>2, <2>2
  <2>3. CASE \E n \in Nat : \/ dst' = [dst EXCEPT !.pc = "options", !.n = n]
                           \/ dst' = [dst EXCEPT !.n = n]
    <3>1. "options" \in DstPhases
          BY DEF DstPhases
    <3> QED
          BY <1>2, <2>3, <3>1
  <2>4. CASE \E num \in 0 .. MaxNum : dst' = [dst EXCEPT !.pc = "meta", !.num = num]
        BY <1>2, <2>4, Zenon DEF DstPhases
  <2> HIDE DEF Dst
  <2>5. CASE ConnectSocket \/ RecvOptions \/ RecvSstFileData
        BY <1>2, <2>3, <2>4, <2>5 DEF ConnectSocket, RecvOptions, RecvSstFileData
  <2>6. CASE DstStartThreads \/ DstTransferEof \/ DstTransferEnd \/ DstLastFlag
        BY <2>1, <2>2, <2>6 DEF DstStartThreads, DstTransferEof, DstTransferEnd, DstLastFlag,
                                DstPhases
  <2>7. CASE DstTransfer \/ DstClose
        BY <2>1, <2>7 DEF DstTransfer, DstClose
  <2> QED
        BY <2>5, <2>6, <2>7 DEF DstMain
<1>11. sent' \in 0 .. MaxNum /\ moved' \in 0 .. sent' /\ (moved' < sent' => sent' <= NumFiles)
  <2>1. CASE DstTransfer \/ DstTransferEof
        BY <1>1, <1>2, <2>1 DEF DstTransfer, DstTransferEof
  <2>2. CASE ~(DstTransfer \/ DstTransferEof)
    <3>1. UNCHANGED <<sent, moved>>
          BY <2>2 DEF DstMain, ConnectSocket, RecvOptions, RecvSstFileData, DstStartThreads,
                      DstTransferEnd, DstLastFlag, DstClose
    <3> QED
          BY <1>1, <3>1
  <2> QED
        BY <2>1, <2>2
<1>12. mig_ended' \in BOOLEAN
      BY <1>4 DEF DstMain, ConnectSocket, RecvOptions, RecvSstFileData, DstStartThreads, DstTransfer,
                  DstTransferEof, DstTransferEnd, DstLastFlag, DstClose
<1> QED
  BY <1>3, <1>4, <1>5, <1>6, <1>8, <1>9, <1>10, <1>11, <1>12 DEF MainTypes

\* The workload threads change of all this at most which processes live.
LEMMA WorkloadLives ==
  ASSUME RemoteTypes, (Answerer \/ Asker)
  PROVE  /\ src_life' \in {src_life, "exited"} /\ dst_life' \in {dst_life, "exited"}
         /\ UNCHANGED mig_ended
  BY DEF Answerer, AnswerSize, AnswerKey, AnswerTimedOut, AnswerSend, Asker, AskPut, AskLocal,
         AskSize, AskKey, AskRecv, AskTimedOut, AskEnd, Sent

LEMMA MainTypesStep ==
  MainTypes /\ SrcCounts /\ RemoteTypes /\ [PhasesNext]_phaseVars => MainTypes' /\ SrcCounts'
<1> SUFFICES ASSUME MainTypes, SrcCounts, RemoteTypes, [PhasesNext]_phaseVars
             PROVE  MainTypes' /\ SrcCounts'
    OBVIOUS
<1>1. CASE SrcMain \/ DstMain
      BY <1>1, SrcMainTypes, DstMainTypes
<1>2. CASE UNCHANGED phaseVars
      BY <1>2 DEF phaseVars, mainVars, MainTypes, SrcCounts
<1>3. CASE SrcExits \/ DstExits \/ ((Answerer \/ Asker) /\ UNCHANGED mainVars)
  <2>1. src_life' \in {src_life, "exited"} /\ dst_life' \in {dst_life, "exited"}
        BY <1>3, WorkloadLives DEF SrcExits, DstExits
  <2>2. UNCHANGED <<mainVars, mig_ended>>
        BY <1>3, WorkloadLives DEF SrcExits, DstExits
  <2> QED
        BY <2>1, <2>2 DEF MainTypes, SrcCounts, Lives, mainVars
<1> QED
  BY <1>1, <1>2, <1>3 DEF PhasesNext

LEMMA RemoteTypesInit == PhasesInit => RemoteTypes /\ StoreRight
<1> SUFFICES ASSUME PhasesInit
             PROVE  RemoteTypes /\ StoreRight
    OBVIOUS
<1>1. PICK k \in Keys : k = CHOOSE l \in Keys : TRUE
      BY RemoteAssumption
<1>2. asker = [pc |-> "start", key |-> k, value |-> <<>>]
      /\ answerer = [pc |-> "start", key |-> <<>>, silent |-> FALSE]
      BY <1>1 DEF PhasesInit, RemoteInit
<1>3. <<>> \in Seq(KeyParts) /\ <<>> \in Seq(AnswerParts) /\ <<>> \in Seq(Nat) /\ Len(<<>>) = 0
      BY EmptySeq
<1>4. ValuePieces \in Nat /\ KeyPieces \in Nat
      BY RemoteAssumption
<1>5. /\ asker \in [pc : {"start", "loop", "key", "recv", "ended"}, key : Keys, value : Seq(AnswerParts)]
      /\ answerer \in [pc : {"start", "size", "key", "ended"}, key : Seq(KeyParts), silent : BOOLEAN]
      BY <1>2, <1>3
<1>6. Len(answerer.key) <= KeyPieces /\ Len(asker.value) <= ValuePieces
      BY <1>2, <1>3, <1>4
<1>7. size_wire = <<>> /\ key_wire = <<>> /\ value_wire = <<>>
      BY DEF PhasesInit, RemoteInit
<1>8. StoreRight
      BY DEF PhasesInit, RemoteInit, StoreRight
<1> QED
  BY <1>3, <1>5, <1>6, <1>7, <1>8 DEF RemoteTypes

\* The steps of the source's workload thread.
LEMMA AnswererTypes == MainTypes /\ RemoteTypes /\ Answerer => RemoteTypes'
<1> SUFFICES ASSUME MainTypes, RemoteTypes, Answerer
             PROVE  RemoteTypes'
    OBVIOUS
<1> DEFINE Pcs == {"start", "size", "key", "ended"}
           Ans == [pc : Pcs, key : Seq(KeyParts), silent : BOOLEAN]
<1>1. answerer \in Ans /\ answerer.key \in Seq(KeyParts) /\ answerer.silent \in BOOLEAN
      BY DEF RemoteTypes
<1>2. size_wire \in Seq(Nat) /\ key_wire \in Seq(KeyParts) /\ value_wire \in Seq(AnswerParts)
      BY DEF RemoteTypes
<1>3. KeyPieces \in Nat /\ Len(answerer.key) \in Nat /\ Len(answerer.key) <= KeyPieces
      BY <1>1, RemoteAssumption, LenProperties DEF RemoteTypes
<1>4. asker' = asker
      BY DEF Answerer, AnswerSize, AnswerKey, AnswerTimedOut, AnswerSend
<1>5. CASE AnswerSize
  <2>1. size_wire' \in Seq(Nat) /\ UNCHANGED <<key_wire, value_wire>>
        BY <1>2, <1>5, HeadTailProperties DEF AnswerSize
  <2>2. answerer' = [answerer EXCEPT !.pc = "key", !.key = <<>>]
        BY <1>5 DEF AnswerSize
  <2>3. answerer' \in Ans /\ answerer'.key = <<>>
        BY <1>1, <2>2, EmptySeq
  <2>4. Len(answerer'.key) <= KeyPieces
        BY <1>3, <2>3
  <2> QED
        BY <1>2, <1>4, <2>1, <2>3, <2>4 DEF RemoteTypes
<1>6. CASE AnswerKey
  <2>1. Len(answerer.key) < KeyPieces /\ KeyPieces - Len(answerer.key) \in Nat
        BY <1>3, <1>6 DEF AnswerKey
  <2>2. PICK chunk \in Chunks(key_wire, KeyPieces - Len(answerer.key)) :
          key_wire' = Rest(key_wire, chunk) /\ answerer' = [answerer EXCEPT !.key = @ \o chunk]
        BY <1>6 DEF AnswerKey
  <2>3. /\ chunk \in Seq(KeyParts) /\ key_wire' \in Seq(KeyParts)
        /\ Len(chunk) \in 1 .. KeyPieces - Len(answerer.key)
        BY <1>2, <2>1, <2>2, ChunkProperties
  <2>4. answerer.key \o chunk \in Seq(KeyParts)
        /\ Len(answerer.key \o chunk) = Len(answerer.key) + Len(chunk)
        BY <1>1, <2>3, ConcatProperties
  <2>5. answerer' \in Ans /\ answerer'.key = answerer.key \o chunk
        BY <1>1, <2>2, <2>4
  <2>6. Len(answerer'.key) <= KeyPieces
        BY <1>3, <2>3, <2>4, <2>5
  <2>7. UNCHANGED <<size_wire, value_wire>>
        BY <1>6 DEF AnswerKey
  <2> QED
        BY <1>2, <1>4, <2>3, <2>5, <2>6, <2>7 DEF RemoteTypes
<1>7. CASE AnswerTimedOut
  <2>1. answerer' = [answerer EXCEPT !.pc = "ended"] /\ UNCHANGED <<size_wire, key_wire, value_wire>>
        BY <1>7 DEF AnswerTimedOut
  <2>2. answerer' \in Ans /\ answerer'.key = answerer.key
        BY <1>1, <2>1
  <2> QED
        BY <1>2, <1>3, <1>4, <2>1, <2>2 DEF RemoteTypes
<1>8. CASE AnswerSend
  <2>1. PICK answer \in Answers :
          /\ Sent(value_wire, value_wire', answer, dst_life, src_life, src_life')
          /\ answerer' = [answerer EXCEPT !.pc = "size", !.silent = @ \/ answer = <<>>]
        BY <1>8 DEF AnswerSend
  <2>2. answer \in Seq(AnswerParts)
    <3>1. \A k \in Keys : ValueOf(k) \in Seq(AnswerParts) /\ NotFound \in Seq(AnswerParts)
          BY AnswerType
    <3>2. NotFound \in Seq(AnswerParts)
          BY <3>1, RemoteAssumption
    <3>3. answer = <<>> \/ answer = NotFound \/ \E k \in Keys : answer = ValueOf(k)
          BY <2>1 DEF Answers, AskedKey
    <3> QED
          BY <3>1, <3>2, <3>3, EmptySeq
  <2>3. value_wire' \in Seq(AnswerParts)
        BY <1>2, <2>1, <2>2, ConcatProperties DEF Sent
  <2>4. answerer' \in Ans /\ answerer'.key = answerer.key
        BY <1>1, <2>1
  <2>5. UNCHANGED <<size_wire, key_wire>>
        BY <1>8 DEF AnswerSend
  <2> QED
        BY <1>2, <1>3, <1>4, <2>3, <2>4, <2>5 DEF RemoteTypes
<1> QED
  BY <1>5, <1>6, <1>7, <1>8 DEF Answerer

\* The steps of the destination's.
LEMMA AskerTypes == MainTypes /\ RemoteTypes /\ Asker => RemoteTypes'
<1> SUFFICES ASSUME MainTypes, RemoteTypes, Asker
             PROVE  RemoteTypes'
    OBVIOUS
<1> DEFINE Pcs == {"start", "loop", "key", "recv", "ended"}
           Ask == [pc : Pcs, key : Keys, value : Seq(AnswerParts)]
<1>1. asker \in Ask /\ asker.key \in Keys /\ asker.value \in Seq(AnswerParts)
      BY DEF RemoteTypes
<1>2. size_wire \in Seq(Nat) /\ key_wire \in Seq(KeyParts) /\ value_wire \in Seq(AnswerParts)
      BY DEF RemoteTypes
<1>3. ValuePieces \in Nat /\ KeyPieces \in Nat /\ Len(asker.value) \in Nat /\ Len(asker.value) <= ValuePieces
      BY <1>1, RemoteAssumption, LenProperties DEF RemoteTypes
<1>4. answerer' = answerer
      BY DEF Asker, AskPut, AskLocal, AskSize, AskKey, AskRecv, AskTimedOut, AskEnd
<1>a. <<>> \in Seq(AnswerParts) /\ Len(<<>>) = 0
      BY EmptySeq
<1>5. CASE AskTimedOut \/ AskEnd \/ \E k \in Keys : AskPut(k) \/ AskLocal(k)
  <2>1. UNCHANGED <<size_wire, key_wire, value_wire>>
        /\ (asker' = asker \/ asker' = [asker EXCEPT !.pc = "ended"])
        BY <1>5 DEF AskTimedOut, AskEnd, AskPut, AskLocal
  <2>2. asker' \in Ask /\ asker'.value = asker.value
        BY <1>1, <2>1
  <2> QED
        BY <1>2, <1>3, <1>4, <2>1, <2>2 DEF RemoteTypes
<1>6. CASE \E k \in Keys : AskSize(k)
  <2>1. PICK k \in Keys : AskSize(k)
        BY <1>6
  <2>2. size_wire' \in Seq(Nat)
    <3>1. size_wire \o <<KeyPieces>> \in Seq(Nat)
          BY <1>2, <1>3, ConcatProperties
    <3> QED
          BY <1>2, <2>1, <3>1 DEF AskSize, Sent
  <2>3. asker' = [pc |-> "key", key |-> k, value |-> <<>>] /\ UNCHANGED <<key_wire, value_wire>>
        BY <2>1 DEF AskSize
  <2>4. asker' \in Ask /\ asker'.value = <<>>
        BY <1>a, <2>3
  <2> QED
        BY <1>2, <1>3, <1>4, <1>a, <2>2, <2>3, <2>4 DEF RemoteTypes
<1>7. CASE AskKey
  <2>1. KeyOf(asker.key) \in Seq(KeyParts)
        BY <1>1, KeyOfType
  <2>2. key_wire' \in Seq(KeyParts)
        BY <1>2, <1>7, <2>1, ConcatProperties DEF AskKey, Sent
  <2>3. asker' = [asker EXCEPT !.pc = "recv"] /\ UNCHANGED <<size_wire, value_wire>>
        BY <1>7 DEF AskKey
  <2>4. asker' \in Ask /\ asker'.value = asker.value
        BY <1>1, <2>3
  <2> QED
        BY <1>2, <1>3, <1>4, <2>2, <2>3, <2>4 DEF RemoteTypes
<1>8. CASE AskRecv
  <2>1. ValuePieces - Len(asker.value) \in Nat
        BY <1>3
  <2>2. PICK chunk \in Chunks(value_wire, ValuePieces - Len(asker.value)) :
          /\ value_wire' = Rest(value_wire, chunk)
          /\ \/ asker' = [asker EXCEPT !.pc = "loop", !.value = <<>>]
             \/ asker' = [asker EXCEPT !.value = asker.value \o chunk]
        BY <1>8 DEF AskRecv
  <2>3. /\ chunk \in Seq(AnswerParts) /\ value_wire' \in Seq(AnswerParts)
        /\ Len(chunk) \in 1 .. ValuePieces - Len(asker.value)
        BY <1>2, <2>1, <2>2, ChunkProperties
  <2>4. asker.value \o chunk \in Seq(AnswerParts)
        /\ Len(asker.value \o chunk) = Len(asker.value) + Len(chunk)
        BY <1>1, <2>3, ConcatProperties
  <2>5. asker' \in Ask /\ asker'.value \in {<<>>, asker.value \o chunk}
        BY <1>1, <1>a, <2>2, <2>4
  <2>6. Len(asker'.value) <= ValuePieces
        BY <1>3, <1>a, <2>3, <2>4, <2>5
  <2>7. UNCHANGED <<size_wire, key_wire>>
        BY <1>8 DEF AskRecv
  <2> QED
        BY <1>2, <1>4, <2>3, <2>5, <2>6, <2>7 DEF RemoteTypes
<1> QED
  BY <1>5, <1>6, <1>7, <1>8 DEF Asker

\* The main threads only start the workload threads.
LEMMA RemoteTypesStep ==
  MainTypes /\ RemoteTypes /\ [PhasesNext]_phaseVars => RemoteTypes'
<1> SUFFICES ASSUME MainTypes, RemoteTypes, [PhasesNext]_phaseVars
             PROVE  RemoteTypes'
    OBVIOUS
<1>1. CASE Answerer \/ Asker
      BY <1>1, AnswererTypes, AskerTypes
<1>2. CASE SrcStartThreads
  <2>1. answerer' = [answerer EXCEPT !.pc = "size"] /\ UNCHANGED <<size_wire, key_wire, value_wire, asker>>
        BY <1>2 DEF SrcStartThreads
  <2>2. /\ answerer' \in [pc : {"start", "size", "key", "ended"}, key : Seq(KeyParts), silent : BOOLEAN]
        /\ answerer'.key = answerer.key
        BY <2>1 DEF RemoteTypes
  <2> QED
        BY <2>1, <2>2 DEF RemoteTypes
<1>3. CASE DstStartThreads
  <2>1. asker' = [asker EXCEPT !.pc = "loop"] /\ UNCHANGED <<size_wire, key_wire, value_wire, answerer>>
        BY <1>3 DEF DstStartThreads
  <2>2. /\ asker' \in [pc : {"start", "loop", "key", "recv", "ended"}, key : Keys, value : Seq(AnswerParts)]
        /\ asker'.value = asker.value
        BY <2>1 DEF RemoteTypes
  <2> QED
        BY <2>1, <2>2 DEF RemoteTypes
<1>4. CASE ~(Answerer \/ Asker \/ SrcStartThreads \/ DstStartThreads)
  <2>1. UNCHANGED <<size_wire, key_wire, value_wire, asker, answerer>>
    <3>1. CASE SrcMain
          BY <1>4, <3>1 DEF SrcMain, ListenSocket, AcceptSocket, SendOptions, SendSstFileData, RecvFlag,
                            SrcTransfer, SrcTransferStarves, SrcTransferJoined, SrcClose, workloadVars
    <3>2. CASE DstMain
          BY <1>4, <3>2 DEF DstMain, ConnectSocket, RecvOptions, RecvSstFileData, DstTransfer,
                            DstTransferEof, DstTransferEnd, DstLastFlag, DstClose, workloadVars
    <3>3. CASE SrcExits \/ DstExits \/ UNCHANGED phaseVars
          BY <3>3 DEF SrcExits, DstExits, phaseVars, workloadVars
    <3> QED
          BY <1>4, <3>1, <3>2, <3>3 DEF PhasesNext
  <2> QED
        BY <2>1 DEF RemoteTypes
<1> QED
  BY <1>1, <1>2, <1>3, <1>4

\* Only a Put and an ingested file change what the database answers.
LEMMA StoreFrame ==
  [PhasesNext]_phaseVars => (\E k \in Keys : AskPut(k)) \/ DstTransfer \/ UNCHANGED <<store, put_keys>>
<1> SUFFICES ASSUME [PhasesNext]_phaseVars, ~(\E k \in Keys : AskPut(k)), ~DstTransfer
             PROVE  UNCHANGED <<store, put_keys>>
    OBVIOUS
<1>1. CASE SrcMain
      BY <1>1 DEF SrcMain, ListenSocket, AcceptSocket, SendOptions, SendSstFileData, RecvFlag,
                  SrcStartThreads, SrcTransfer, SrcTransferStarves, SrcTransferJoined, SrcClose, workloadVars
<1>2. CASE DstMain
      BY <1>2 DEF DstMain, ConnectSocket, RecvOptions, RecvSstFileData, DstStartThreads,
                  DstTransferEof, DstTransferEnd, DstLastFlag, DstClose, workloadVars
<1>3. CASE SrcExits \/ DstExits \/ UNCHANGED phaseVars
      BY <1>3 DEF SrcExits, DstExits, phaseVars, workloadVars
<1>4. CASE Answerer \/ Asker
      BY <1>4 DEF Answerer, AnswerSize, AnswerKey, AnswerTimedOut, AnswerSend, Asker, AskLocal,
                  AskSize, AskKey, AskRecv, AskTimedOut, AskEnd
<1> QED
  BY <1>1, <1>2, <1>3, <1>4 DEF PhasesNext

\* A file that arrives has none of the keys the source lacks.
LEMMA StoreStep == MainTypes /\ StoreRight /\ [PhasesNext]_phaseVars => StoreRight'
<1> SUFFICES ASSUME MainTypes, StoreRight, [PhasesNext]_phaseVars
             PROVE  StoreRight'
    OBVIOUS
<1> DEFINE Values == {Nothing, PutValue} \cup {ValueOf(k) : k \in Keys}
<1>1. store \in [Keys -> Values] /\ put_keys \subseteq Keys
      BY DEF StoreRight
<1>2. CASE \E k \in Keys : AskPut(k)
  <2>1. PICK k \in Keys : AskPut(k)
        BY <1>2
  <2>2. CASE UNCHANGED <<store, put_keys>>
        BY <2>2 DEF StoreRight, RightFor
  <2>3. CASE store' = [store EXCEPT ![k] = PutValue] /\ put_keys' = put_keys \cup {k}
    <3>1. store' \in [Keys -> Values] /\ put_keys' \subseteq Keys
          BY <1>1, <2>3
    <3>2. ASSUME NEW l \in Keys, store'[l] # Nothing
          PROVE  RightFor(l, store[l])'
      <4>1. CASE l = k
            BY <1>1, <2>3, <4>1 DEF RightFor
      <4>2. CASE l # k
        <5>1. store'[l] = store[l]
              BY <1>1, <2>3, <4>2
        <5>2. RightFor(l, store[l])
              BY <3>2, <5>1 DEF StoreRight
        <5> QED
              BY <2>3, <5>1, <5>2 DEF RightFor
      <4> QED
            BY <4>1, <4>2
    <3> QED
          BY <3>1, <3>2 DEF StoreRight, RightFor
  <2> QED
        BY <2>1, <2>2, <2>3 DEF AskPut
<1>3. CASE DstTransfer
  <2>1. /\ moved < NumFiles /\ moved' = moved + 1 /\ put_keys' = put_keys
        /\ store' = [k \in Keys |->
             IF k \in FileKeys[moved'] /\ (store[k] = Nothing \/ moved' \in LevelZero) THEN ValueOf(k)
             ELSE store[k]]
        BY <1>3, FilesCount DEF DstTransfer, MainTypes, workloadVars
  <2>2. moved' \in 1 .. Len(FileKeys)
        BY <2>1, FilesCount DEF MainTypes, NumFiles
  <2>3. FileKeys[moved'] \subseteq Keys \ Missing
        BY <2>2, PhasesAssumption, ElementOfSeq
  <2>4. store' \in [Keys -> Values]
        BY <1>1, <2>1
  <2>5. \A k \in Keys : \/ store'[k] = ValueOf(k) /\ k \notin Missing
                        \/ store'[k] = store[k]
        BY <2>1, <2>3
  <2> QED
        BY <1>1, <2>1, <2>4, <2>5 DEF StoreRight, RightFor
<1>4. CASE UNCHANGED <<store, put_keys>>
      BY <1>4 DEF StoreRight, RightFor
<1> QED
  BY <1>2, <1>3, <1>4, StoreFrame

LEMMA PhasesTypesInvariant == PhasesSpec => []PhasesTypes
<1>1. PhasesInit => PhasesTypes
      BY MainTypesInit, RemoteTypesInit DEF PhasesTypes
<1>2. PhasesTypes /\ [PhasesNext]_phaseVars => PhasesTypes'
      BY MainTypesStep, RemoteTypesStep, StoreStep DEF PhasesTypes
<1> QED
  BY <1>1, <1>2, PTL DEF PhasesSpec

\* The types, the sockets counted and the values a key may have, whatever
\* process exits, and whatever is read from a connection that has ended.
THEOREM PhasesTypeCorrect == PhasesSpec => []PhasesTypeOK
<1>1. ASSUME PhasesTypes
      PROVE  PhasesTypeOK
  <2>1. NumFiles \in Nat /\ NumConns \in Nat
        BY FilesCount, PhasesAssumption
  <2>2. /\ src_life \in {"running", "exited", "ended"} /\ dst_life \in {"running", "exited", "ended"}
        /\ src.pc \in SrcPhases /\ dst.pc \in DstPhases /\ dst.num \in 0 .. MaxNum
        /\ mig_ended \in BOOLEAN /\ sent \in 0 .. MaxNum /\ moved \in 0 .. sent
        /\ src.n \in Nat
        BY <1>1 DEF PhasesTypes, MainTypes, Lives
  <2>3. listening \in 0 .. NumConns /\ src.n \in 0 .. NumConns + NumFiles
    <3>1. src.n <= NumConns \/ src.n <= NumFiles
          BY <1>1, <2>1, <2>2 DEF PhasesTypes, SrcCounts, SrcPhases
    <3> QED
          BY <1>1, <2>1, <2>2, <3>1 DEF PhasesTypes, SrcCounts
  <2>4. /\ answerer.pc \in {"start", "size", "key", "ended"} /\ answerer.key \in Seq(KeyParts)
        /\ asker.pc \in {"start", "loop", "key", "recv", "ended"} /\ asker.value \in Seq(AnswerParts)
        /\ asker.key \in Keys
        BY <1>1 DEF PhasesTypes, RemoteTypes
  <2>5. Len(answerer.key) \in 0 .. KeyPieces /\ Len(asker.value) \in 0 .. ValuePieces
        BY <1>1, <2>4, LenProperties, RemoteAssumption DEF PhasesTypes, RemoteTypes
  <2>6. put_keys \subseteq Keys /\ \A k \in Keys : store[k] \in {Nothing, PutValue, ValueOf(k)}
        BY <1>1 DEF PhasesTypes, StoreRight, RightFor
  <2> QED
        BY <2>2, <2>3, <2>4, <2>5, <2>6 DEF PhasesTypeOK, SrcPhases, DstPhases
<1> QED
  BY <1>1, PhasesTypesInvariant, PTL

-------------------------------------------------------------------------------
(* The ends *)

LEMMA EndsInit == PhasesInit => EndsInTurn /\ ThreadsStart
  BY DEF PhasesInit, RemoteInit, EndsInTurn, ThreadsStart

\* Neither process comes back, and the workload thread of the source ends when
\* the destination is gone.
LEMMA LivesStep ==
  ASSUME MainTypes, [PhasesNext]_phaseVars
  PROVE  /\ src_life' = "running" => src_life = "running"
         /\ dst_life' = "running" => dst_life = "running"
<1>1. CASE SrcMain
      BY <1>1 DEF SrcMain, ListenSocket, AcceptSocket, SendOptions, SendSstFileData, RecvFlag,
                  SrcStartThreads, SrcTransfer, SrcTransferStarves, SrcTransferJoined, SrcClose, Sent
<1>2. CASE DstMain
      BY <1>2 DEF DstMain, ConnectSocket, RecvOptions, RecvSstFileData, DstStartThreads, DstTransfer,
                  DstTransferEof, DstTransferEnd, DstLastFlag, DstClose, SendFlag, Sent
<1>3. CASE SrcExits \/ DstExits \/ UNCHANGED phaseVars
      BY <1>3 DEF SrcExits, DstExits, phaseVars
<1>4. CASE Answerer \/ Asker
      BY <1>4 DEF Answerer, AnswerSize, AnswerKey, AnswerTimedOut, AnswerSend, Asker, AskPut, AskLocal,
                  AskSize, AskKey, AskRecv, AskTimedOut, AskEnd, Sent
<1> QED
  BY <1>1, <1>2, <1>3, <1>4 DEF PhasesNext

\* The workload thread of the source ends only once the destination has gone.
LEMMA EndsStep == PhasesTypes /\ EndsInTurn /\ [PhasesNext]_phaseVars => EndsInTurn'
<1> SUFFICES ASSUME PhasesTypes, EndsInTurn, [PhasesNext]_phaseVars
             PROVE  EndsInTurn'
    OBVIOUS
<1>1. CASE SrcStartThreads
      BY <1>1 DEF SrcStartThreads, EndsInTurn, SrcAt
<1>2. CASE SrcClose
      BY <1>2 DEF SrcClose, EndsInTurn, workloadVars
<1>3. CASE Answerer
  <2>1. dst_life' = dst_life /\ src_life = "running" /\ src_life' \in {"running", "exited"}
        BY <1>3 DEF Answerer, AnswerSize, AnswerKey, AnswerTimedOut, AnswerSend, Sent, AnswererAt
  <2>2. answerer'.pc = "ended" => dst_life # "running"
    <3>1. answerer \in [pc : {"start", "size", "key", "ended"}, key : Seq(KeyParts), silent : BOOLEAN]
          BY DEF PhasesTypes, RemoteTypes
    <3>2. CASE AnswerTimedOut
          BY <3>2 DEF AnswerTimedOut
    <3>3. CASE AnswerSize \/ AnswerKey \/ AnswerSend
          BY <3>1, <3>3 DEF AnswerSize, AnswerKey, AnswerSend, AnswererAt
    <3> QED
          BY <1>3, <3>2, <3>3 DEF Answerer
  <2> QED
        BY <2>1, <2>2 DEF EndsInTurn
<1>4. CASE ~(SrcStartThreads \/ SrcClose \/ Answerer)
  <2>1. answerer' = answerer /\ (src_life' = "ended" => src_life = "ended")
    <3>1. CASE SrcMain
          BY <1>4, <3>1 DEF SrcMain, ListenSocket, AcceptSocket, SendOptions, SendSstFileData, RecvFlag,
                            SrcTransfer, SrcTransferStarves, SrcTransferJoined, Sent, workloadVars
    <3>2. CASE DstMain
          BY <3>2 DEF DstMain, ConnectSocket, RecvOptions, RecvSstFileData, DstStartThreads, DstTransfer,
                      DstTransferEof, DstTransferEnd, DstLastFlag, DstClose, workloadVars
    <3>3. CASE SrcExits \/ DstExits \/ UNCHANGED phaseVars
          BY <3>3 DEF SrcExits, DstExits, phaseVars, workloadVars
    <3>4. CASE Asker
          BY <3>4 DEF Asker, AskPut, AskLocal, AskSize, AskKey, AskRecv, AskTimedOut, AskEnd
    <3> QED
          BY <1>4, <3>1, <3>2, <3>3, <3>4 DEF PhasesNext
  <2> QED
        BY <2>1, LivesStep DEF EndsInTurn, PhasesTypes
<1> QED
  BY <1>1, <1>2, <1>3, <1>4

\* While the destination waits for an answer, the source that has not exited
\* has not ended either, and still answers.
THEOREM SourceOutlivesCorrect == PhasesSpec => []SourceOutlivesQuestions
<1>1. PhasesInit => EndsInTurn
      BY EndsInit
<1>2. PhasesTypes /\ EndsInTurn /\ [PhasesNext]_phaseVars => EndsInTurn'
      BY EndsStep
<1>3. PhasesTypes /\ EndsInTurn => SourceOutlivesQuestions
      BY DEF PhasesTypes, MainTypes, Lives, EndsInTurn, SourceOutlivesQuestions
<1> QED
  BY <1>1, <1>2, <1>3, PhasesTypesInvariant, PTL DEF PhasesSpec

\* A workload thread starts with its main thread's word, and once.
LEMMA ThreadsStep == PhasesTypes /\ ThreadsStart /\ [PhasesNext]_phaseVars => ThreadsStart'
<1> SUFFICES ASSUME PhasesTypes, ThreadsStart, [PhasesNext]_phaseVars
             PROVE  ThreadsStart'
    OBVIOUS
<1> DEFINE Early == {"listen", "accept", "options", "options_flag", "meta", "meta_flag"}
<1>1. src \in [pc : SrcPhases, n : Nat] /\ dst \in [pc : DstPhases, n : Nat, num : 0 .. MaxNum]
      BY DEF PhasesTypes, MainTypes
<1>2. src'.pc \in Early => src.pc \in Early /\ answerer' = answerer
  <2>1. CASE SrcMain
    <3>1. CASE RecvFlag
          BY <1>1, <3>1 DEF RecvFlag, AfterFlag, SrcAt, workloadVars
    <3>2. CASE ListenSocket \/ AcceptSocket \/ SendOptions \/ SendSstFileData
          BY <3>2 DEF ListenSocket, AcceptSocket, SendOptions, SendSstFileData, SrcAt, workloadVars
    <3>3. CASE SrcStartThreads \/ SrcTransferStarves \/ SrcTransferJoined
          BY <1>1, <3>3 DEF SrcStartThreads, SrcTransferStarves, SrcTransferJoined
    <3>4. CASE SrcTransfer \/ SrcClose
          BY <3>4 DEF SrcTransfer, SrcClose, workloadVars
    <3> QED
          BY <2>1, <3>1, <3>2, <3>3, <3>4 DEF SrcMain
  <2>2. CASE DstMain
        BY <2>2 DEF DstMain, ConnectSocket, RecvOptions, RecvSstFileData, DstStartThreads, DstTransfer,
                    DstTransferEof, DstTransferEnd, DstLastFlag, DstClose, workloadVars
  <2>3. CASE SrcExits \/ DstExits \/ UNCHANGED phaseVars \/ (Asker /\ UNCHANGED mainVars)
        BY <2>3 DEF SrcExits, DstExits, phaseVars, workloadVars, mainVars, Asker, AskPut, AskLocal, AskSize,
                    AskKey, AskRecv, AskTimedOut, AskEnd
  <2>4. CASE Answerer /\ UNCHANGED mainVars
    <3>1. answerer.pc # "start"
          BY <2>4 DEF Answerer, AnswerSize, AnswerKey, AnswerTimedOut, AnswerSend, AnswererAt
    <3> QED
          BY <2>4, <3>1 DEF ThreadsStart, mainVars
  <2> QED
        BY <2>1, <2>2, <2>3, <2>4 DEF PhasesNext
<1> DEFINE Before == {"connect", "options", "meta"}
<1>3. dst'.pc \in Before => dst.pc \in Before /\ asker' = asker
  <2>1. CASE DstMain
    <3>1. CASE ConnectSocket \/ RecvOptions \/ RecvSstFileData
          BY <1>1, <3>1 DEF ConnectSocket, RecvOptions, RecvSstFileData, DstAt, workloadVars
    <3>2. CASE DstStartThreads \/ DstTransferEnd \/ DstLastFlag
          BY <1>1, <3>2 DEF DstStartThreads, DstTransferEnd, DstLastFlag
    <3>3. CASE DstTransfer \/ DstTransferEof
          BY <1>1, <3>3 DEF DstTransfer, DstTransferEof, DstAt
    <3>4. CASE DstClose
          BY <3>4 DEF DstClose, workloadVars
    <3> QED
          BY <2>1, <3>1, <3>2, <3>3, <3>4 DEF DstMain
  <2>2. CASE SrcMain
        BY <2>2 DEF SrcMain, ListenSocket, AcceptSocket, SendOptions, SendSstFileData, RecvFlag,
                    SrcStartThreads, SrcTransfer, SrcTransferStarves, SrcTransferJoined, SrcClose, workloadVars
  <2>3. CASE SrcExits \/ DstExits \/ UNCHANGED phaseVars \/ (Answerer /\ UNCHANGED mainVars)
        BY <2>3 DEF SrcExits, DstExits, phaseVars, workloadVars, mainVars, Answerer, AnswerSize, AnswerKey,
                    AnswerTimedOut, AnswerSend
  <2>4. CASE Asker /\ UNCHANGED mainVars
    <3>1. CASE asker.pc # "start"
          BY <1>1, <2>4, <3>1 DEF ThreadsStart, DstHasOptions, mainVars
    <3>2. CASE asker.pc = "start"
          BY <2>4, <3>2 DEF Asker, AskPut, AskLocal, AskSize, AskKey, AskRecv, AskTimedOut, AskEnd, AskerAt
    <3> QED
          BY <3>1, <3>2
  <2> QED
        BY <2>1, <2>2, <2>3, <2>4 DEF PhasesNext
<1> QED
  BY <1>1, <1>2, <1>3 DEF ThreadsStart, DstHasOptions

-------------------------------------------------------------------------------
(* main_fd *)

\* Of the steps other than those of the main threads none touches what the lock
\* step is about.
lockVars == <<src, dst, to_dst, to_src, sent, moved>>

LEMMA LockFrame ==
  ASSUME [PhasesNext]_phaseVars, ~SrcMain, ~DstMain
  PROVE  UNCHANGED lockVars
  BY DEF PhasesNext, SrcExits, DstExits, phaseVars, mainVars, lockVars

LEMMA LockInit == PhasesInit => MainLockStep
<1> SUFFICES ASSUME PhasesInit
             PROVE  MainLockStep
    OBVIOUS
<1>1. NumConns \in Nat \ {0}
      BY PhasesAssumption
<1> QED
  BY <1>1 DEF PhasesInit, MainLockStep, NothingSent, DstHasOptions

\* A step of the source's main thread, both running before and after it.
LEMMA SrcLockStep ==
  ASSUME NumFiles > 0, MainTypes, SrcCounts, MainLockStep, SrcMain, BothRun, BothRun'
  PROVE  MainLockStep'
<1>1. /\ NumFiles \in Nat /\ src \in [pc : SrcPhases, n : Nat] /\ src.n \in Nat
      /\ dst \in [pc : DstPhases, n : Nat, num : 0 .. MaxNum] /\ dst.n \in Nat
      /\ sent \in Nat /\ moved \in Nat /\ moved <= sent
      BY FilesCount DEF MainTypes
<1>2. /\ src.pc \in {"listen", "accept", "options"} => NothingSent /\ ~DstHasOptions /\ sent = 0
      /\ dst.pc = "options" => dst.n = 0
      /\ dst.pc \in {"flag", "join"} => moved = NumFiles
      BY DEF MainLockStep
<1>3. dst' = dst /\ moved' = moved
      BY DEF SrcMain, ListenSocket, AcceptSocket, SendOptions, SendSstFileData, RecvFlag,
             SrcStartThreads, SrcTransfer, SrcTransferStarves, SrcTransferJoined, SrcClose
<1>4. CASE ListenSocket \/ AcceptSocket
  <2>1. src.pc \in {"listen", "accept"} /\ UNCHANGED <<to_dst, to_src, sent>>
        BY <1>4 DEF ListenSocket, AcceptSocket, SrcAt
  <2>2. src'.pc \in {"listen", "accept", "options"}
        BY <1>1, <1>4, <2>1 DEF ListenSocket, AcceptSocket
  <2> QED
        BY <1>2, <1>3, <2>1, <2>2 DEF MainLockStep, NothingSent, DstHasOptions
<1>5. CASE SendOptions
  <2>1. src.pc = "options" /\ src'.pc = "options_flag" /\ UNCHANGED <<to_src, sent>>
        BY <1>1, <1>5 DEF SendOptions, SrcAt
  <2>2. to_dst' = to_dst \o <<Message("options", 0)>>
        BY <1>5 DEF SendOptions, Sent, BothRun
  <2>3. OnlyToDst(Message("options", 0))'
        BY <1>2, <2>1, <2>2 DEF NothingSent, OnlyToDst
  <2> QED
        BY <1>2, <1>3, <2>1, <2>3 DEF MainLockStep, DstHasOptions
<1>6. CASE SendSstFileData
  <2>1. src.pc = "meta" /\ src'.pc = "meta_flag" /\ src'.n = src.n /\ UNCHANGED <<to_src, sent>>
        BY <1>1, <1>6 DEF SendSstFileData, SrcAt
  <2>2. to_dst' = to_dst \o <<Message("file", src.n)>>
        BY <1>6 DEF SendSstFileData, Sent, BothRun
  <2>3. NothingSent /\ DstHas(src.n) /\ sent = 0
        BY <2>1 DEF MainLockStep, BothRun
  <2>4. OnlyToDst(Message("file", src.n))'
        BY <2>1, <2>2, <2>3 DEF NothingSent, OnlyToDst
  <2> QED
        BY <1>2, <1>3, <2>1, <2>3, <2>4 DEF MainLockStep, DstHas, DstHasOptions
<1>7. CASE RecvFlag
  <2>1. /\ to_src # <<>> /\ to_src' = Tail(to_src) /\ src' = AfterFlag
        /\ src.pc \in {"options_flag", "meta_flag", "last_flag"} /\ UNCHANGED <<to_dst, sent>>
        BY <1>7 DEF RecvFlag, BothRun, SrcAt
  <2>2. CASE src.pc = "options_flag"
    <3>1. src'.pc = "meta" /\ src'.n = src.n /\ src.n = 0
          BY <1>1, <2>1, <2>2 DEF AfterFlag, SrcCounts
    <3>2. OnlyToSrc(Message("options", 0)) /\ DstHas(0) /\ sent = 0
          BY <2>1, <2>2 DEF MainLockStep, BothRun, OnlyToDst
    <3>3. NothingSent'
          BY <2>1, <3>2 DEF NothingSent, OnlyToSrc
    <3> QED
          BY <1>2, <1>3, <2>1, <3>1, <3>2, <3>3 DEF MainLockStep, DstHas, DstHasOptions
  <2>3. CASE src.pc = "meta_flag"
    <3>1. src'.pc = "meta" /\ src'.n = src.n + 1
          BY <1>1, <2>1, <2>3 DEF AfterFlag
    <3>2. OnlyToSrc(Message("file", src.n)) /\ DstHas(src.n + 1) /\ sent = 0
          BY <2>1, <2>3 DEF MainLockStep, BothRun, OnlyToDst
    <3>3. NothingSent'
          BY <2>1, <3>2 DEF NothingSent, OnlyToSrc
    <3> QED
          BY <1>2, <1>3, <2>1, <3>1, <3>2, <3>3 DEF MainLockStep, DstHas, DstHasOptions
  <2>4. CASE src.pc = "last_flag"
    <3>1. src'.pc = "join"
          BY <1>1, <2>1, <2>4 DEF AfterFlag
    <3>2. OnlyToSrc(Message("end", 0)) /\ dst.pc = "join" /\ sent = NumFiles
          BY <2>1, <2>4 DEF MainLockStep, BothRun, NothingSent
    <3>3. NothingSent'
          BY <2>1, <3>2 DEF NothingSent, OnlyToSrc
    <3> QED
          BY <1>2, <1>3, <2>1, <3>1, <3>2, <3>3 DEF MainLockStep, DstHasOptions
  <2> QED
        BY <2>1, <2>2, <2>3, <2>4
<1>8. CASE SrcStartThreads
  <2>1. src.pc = "meta" /\ src.n = NumFiles /\ src'.pc = "transfer" /\ UNCHANGED <<to_dst, to_src, sent>>
        BY <1>1, <1>8 DEF SrcStartThreads, SrcAt
  <2>2. NothingSent /\ DstHas(NumFiles) /\ sent = 0
        BY <2>1 DEF MainLockStep, BothRun
  <2> QED
        BY <1>2, <1>3, <2>1, <2>2 DEF MainLockStep, NothingSent, DstHas, DstHasOptions
<1>9. CASE SrcTransfer
  <2>1. src.pc = "transfer" /\ src' = src /\ UNCHANGED <<to_dst, to_src>>
        BY <1>9 DEF SrcTransfer, SrcAt
  <2> QED
        BY <1>2, <1>3, <2>1 DEF MainLockStep, BothRun, NothingSent, OnlyToSrc, DstHas, DstHasOptions
<1>10. CASE SrcTransferJoined
  <2>1. src.pc = "transfer" /\ sent = NumFiles /\ src'.pc = "last_flag" /\ UNCHANGED <<to_dst, to_src, sent>>
        BY <1>1, <1>10 DEF SrcTransferJoined, SrcAt
  <2> QED
        BY <1>2, <1>3, <2>1 DEF MainLockStep, BothRun, NothingSent, OnlyToSrc, DstHas, DstHasOptions
<1>11. CASE SrcTransferStarves
  <2>1. src.pc = "transfer" /\ sent < NumFiles /\ src'.pc = "spin" /\ UNCHANGED <<to_dst, to_src, sent>>
        BY <1>1, <1>11 DEF SrcTransferStarves, SrcAt
  <2>2. moved < NumFiles
        BY <1>1, <2>1
  <2>3. NothingSent /\ DstHas(NumFiles)
        BY <1>1, <1>2, <2>1, <2>2 DEF MainLockStep, BothRun
  <2> QED
        BY <1>2, <1>3, <2>1, <2>3 DEF MainLockStep, NothingSent, DstHas, DstHasOptions
<1>12. CASE SrcClose
       BY <1>12 DEF SrcClose, BothRun
<1> QED
  BY <1>4, <1>5, <1>6, <1>7, <1>8, <1>9, <1>10, <1>11, <1>12 DEF SrcMain

\* A step of the destination's main thread.
LEMMA DstLockStep ==
  ASSUME NumFiles > 0, MainTypes, SrcCounts, MainLockStep, DstMain, BothRun, BothRun'
  PROVE  MainLockStep'
<1>1. /\ NumFiles \in Nat /\ src \in [pc : SrcPhases, n : Nat] /\ src.n \in Nat
      /\ dst \in [pc : DstPhases, n : Nat, num : 0 .. MaxNum] /\ dst.n \in Nat
      /\ sent \in Nat /\ moved \in Nat /\ moved <= sent /\ (moved < sent => sent <= NumFiles)
      BY FilesCount DEF MainTypes
<1>2. /\ src.pc \in {"listen", "accept", "options"} => NothingSent /\ ~DstHasOptions /\ sent = 0
      /\ dst.pc = "options" => dst.n = 0
      /\ dst.pc \in {"flag", "join"} => moved = NumFiles
      BY DEF MainLockStep
<1>3. src' = src
      BY DEF DstMain, ConnectSocket, RecvOptions, RecvSstFileData, DstStartThreads, DstTransfer,
             DstTransferEof, DstTransferEnd, DstLastFlag, DstClose
<1>4. CASE ConnectSocket
  <2>1. dst.pc = "connect" /\ UNCHANGED <<to_dst, to_src, sent, moved>>
        BY <1>4 DEF ConnectSocket, DstAt
  <2>2. dst'.pc = "connect" \/ (dst'.pc = "options" /\ dst'.n = 0)
        BY <1>1, <1>4 DEF ConnectSocket, DstAt
  <2> QED
        BY <1>2, <1>3, <2>1, <2>2 DEF MainLockStep, BothRun, DstHasOptions, NothingSent, OnlyToDst,
                                      OnlyToSrc, DstHas
<1>5. CASE RecvOptions
  <2>1. /\ dst.pc = "options" /\ to_dst # <<>> /\ to_dst' = Tail(to_dst) /\ UNCHANGED <<sent, moved>>
        /\ dst' = [dst EXCEPT !.pc = "meta", !.num = NumFiles]
        /\ SendFlag("options", 0)
        BY <1>5 DEF RecvOptions, DstAt, BothRun
  <2>2. dst'.pc = "meta" /\ dst'.num = NumFiles /\ dst'.n = dst.n
        BY <1>1, <2>1
  <2>3. src.pc = "options_flag" /\ OnlyToDst(Message("options", 0)) /\ sent = 0
        BY <2>1 DEF MainLockStep, BothRun, NothingSent, OnlyToDst, OnlyToSrc, DstHas, SrcPhases, MainTypes
  <2>4. dst.n = 0
        BY <1>2, <2>1
  <2>5. to_src' = to_src \o <<Message("options", 0)>>
        BY <2>1 DEF SendFlag, Sent, BothRun
  <2>6. OnlyToSrc(Message("options", 0))'
        BY <2>1, <2>3, <2>5 DEF OnlyToDst, OnlyToSrc
  <2> QED
        BY <1>3, <2>1, <2>2, <2>3, <2>4, <2>6 DEF MainLockStep, DstHas, DstHasOptions
<1>6. CASE RecvSstFileData
  <2>1. /\ dst.pc = "meta" /\ dst.n < dst.num /\ to_dst # <<>> /\ to_dst' = Tail(to_dst)
        /\ UNCHANGED <<sent, moved>> /\ dst' = [dst EXCEPT !.n = @ + 1]
        /\ SendFlag("file", dst.n)
        BY <1>6 DEF RecvSstFileData, DstAt, BothRun
  <2>2. dst'.pc = "meta" /\ dst'.num = dst.num /\ dst'.n = dst.n + 1
        BY <1>1, <2>1
  <2>3. src.pc = "meta_flag" /\ OnlyToDst(Message("file", src.n)) /\ DstHas(src.n) /\ sent = 0
        BY <2>1 DEF MainLockStep, BothRun, NothingSent, OnlyToDst, OnlyToSrc, DstHasOptions, SrcPhases,
                    MainTypes
  <2>4. dst.n = src.n /\ dst.num = NumFiles
        BY <2>1, <2>3 DEF DstHas
  <2>5. to_src' = to_src \o <<Message("file", src.n)>>
        BY <2>1, <2>4 DEF SendFlag, Sent, BothRun
  <2>6. OnlyToSrc(Message("file", src.n))'
        BY <1>3, <2>1, <2>3, <2>5 DEF OnlyToDst, OnlyToSrc
  <2> QED
        BY <1>3, <2>1, <2>2, <2>3, <2>4, <2>6 DEF MainLockStep, DstHas, DstHasOptions
<1>7. CASE DstStartThreads
  <2>1. /\ dst.pc = "meta" /\ dst.n = dst.num /\ dst' = [dst EXCEPT !.pc = "transfer"]
        /\ UNCHANGED <<to_dst, to_src, sent, moved>>
        BY <1>7 DEF DstStartThreads, DstAt
  <2>2. dst'.pc = "transfer" /\ dst'.num = dst.num /\ dst'.n = dst.n
        BY <1>1, <2>1
  <2>3. \A n \in Nat : DstHas(n) => n = NumFiles /\ DstHas(n)'
        BY <2>1, <2>2 DEF DstHas
  <2>4. CASE src.pc \in {"listen", "accept", "options"}
        BY <1>2, <2>1, <2>4 DEF DstHasOptions
  <2>5. CASE src.pc = "options_flag"
        BY <1>1, <2>1, <2>3, <2>5 DEF MainLockStep, BothRun, DstHasOptions
  <2>6. CASE src.pc = "meta"
        BY <1>1, <1>3, <2>1, <2>2, <2>3, <2>6 DEF MainLockStep, BothRun, NothingSent, DstHasOptions
  <2>7. CASE src.pc = "meta_flag"
    <3>1. ~DstHas(src.n)
          BY <1>1, <2>3, <2>7 DEF SrcCounts
    <3>2. OnlyToSrc(Message("file", src.n)) /\ DstHas(src.n + 1) /\ sent = 0
          BY <2>7, <3>1 DEF MainLockStep, BothRun
    <3>3. DstHas(src.n + 1)'
      <4>1. src.n + 1 \in Nat /\ src'.n = src.n
            BY <1>1, <1>3
      <4> QED
            BY <2>1, <2>2, <3>2, <4>1 DEF DstHas
    <3> QED
          BY <1>3, <2>1, <2>2, <2>7, <3>2, <3>3 DEF MainLockStep, OnlyToSrc, DstHasOptions
  <2>8. CASE src.pc \in {"transfer", "spin", "last_flag"}
        BY <1>1, <1>3, <2>1, <2>2, <2>3, <2>8 DEF MainLockStep, BothRun, NothingSent, OnlyToSrc, DstHasOptions
  <2>9. CASE src.pc = "join"
        BY <2>1, <2>9 DEF MainLockStep, BothRun
  <2> QED
        BY <2>4, <2>5, <2>6, <2>7, <2>8, <2>9 DEF SrcPhases, MainTypes
<1>8. CASE DstTransfer \/ DstTransferEof
  <2>1. UNCHANGED <<dst, to_dst, to_src, sent>> /\ dst.pc = "transfer"
        BY <1>8 DEF DstTransfer, DstTransferEof, DstAt, BothRun
  <2> QED
        BY <1>2, <1>3, <2>1 DEF MainLockStep, BothRun, NothingSent, OnlyToDst, OnlyToSrc, DstHas,
                                DstHasOptions
<1>9. CASE DstTransferEnd
  <2>1. /\ dst.pc = "transfer" /\ moved = dst.num /\ dst' = [dst EXCEPT !.pc = "flag"]
        /\ UNCHANGED <<to_dst, to_src, sent, moved>>
        BY <1>9 DEF DstTransferEnd, DstAt
  <2>2. dst'.pc = "flag" /\ dst'.num = dst.num
        BY <1>1, <2>1
  <2>3. dst.num = NumFiles
        BY <2>1 DEF MainLockStep, BothRun, DstHas, DstHasOptions, SrcPhases, MainTypes
  <2>4. sent = NumFiles /\ sent # 0 /\ ~(sent < NumFiles)
        BY <1>1, <2>1, <2>3
  <2>5. src.pc \in {"transfer", "last_flag"} /\ NothingSent
        BY <2>1, <2>4 DEF MainLockStep, BothRun, SrcPhases, MainTypes
  <2> QED
        BY <1>3, <2>1, <2>2, <2>3, <2>4, <2>5 DEF MainLockStep, NothingSent, DstHasOptions
<1>10. CASE DstLastFlag
  <2>1. /\ dst.pc = "flag" /\ dst' = [dst EXCEPT !.pc = "join"] /\ SendFlag("end", 0)
        /\ UNCHANGED <<to_dst, sent, moved>>
        BY <1>10 DEF DstLastFlag, DstAt
  <2>2. dst'.pc = "join"
        BY <1>1, <2>1
  <2>3. src.pc \in {"transfer", "last_flag"} /\ NothingSent /\ (src.pc = "last_flag" => sent = NumFiles)
        BY <2>1 DEF MainLockStep, BothRun, DstHas, DstHasOptions, SrcPhases, MainTypes
  <2>4. to_src' = to_src \o <<Message("end", 0)>>
        BY <2>1 DEF SendFlag, Sent, BothRun
  <2>5. OnlyToSrc(Message("end", 0))'
        BY <2>1, <2>3, <2>4 DEF NothingSent, OnlyToSrc
  <2> QED
        BY <1>2, <1>3, <2>1, <2>2, <2>3, <2>5 DEF MainLockStep, DstHasOptions
<1>11. CASE DstClose
       BY <1>11 DEF DstClose, BothRun
<1> QED
  BY <1>4, <1>5, <1>6, <1>7, <1>8, <1>9, <1>10, <1>11 DEF DstMain

\* The lock step, and from it what the property says: with at least one file.
\* With none the destination sends its last flag before the source has read its
\* first.
THEOREM MainInStepCorrect ==
  ASSUME NumFiles > 0
  PROVE  PhasesSpec => []MainInStep
<1>1. PhasesTypes /\ MainLockStep /\ [PhasesNext]_phaseVars => MainLockStep'
  <2> SUFFICES ASSUME PhasesTypes, MainLockStep, [PhasesNext]_phaseVars, BothRun'
               PROVE  MainLockStep'
      BY DEF MainLockStep
  <2>1. BothRun
        BY LivesStep DEF BothRun, PhasesTypes
  <2>2. CASE SrcMain
        BY <2>1, <2>2, SrcLockStep DEF PhasesTypes
  <2>3. CASE DstMain
        BY <2>1, <2>3, DstLockStep DEF PhasesTypes
  <2>4. CASE ~SrcMain /\ ~DstMain
    <3>1. UNCHANGED lockVars
          BY <2>4, LockFrame
    <3> QED
          BY <2>1, <3>1 DEF lockVars, MainLockStep, NothingSent, OnlyToDst, OnlyToSrc, DstHas,
                            DstHasOptions
  <2> QED
        BY <2>2, <2>3, <2>4
<1>2. PhasesTypes /\ MainLockStep => MainInStep
  <2> SUFFICES ASSUME PhasesTypes, MainLockStep, BothRun
               PROVE  /\ Len(to_dst) + Len(to_src) <= 1
                      /\ \A i \in DOMAIN to_dst :
                           CASE to_dst[i].of = "options" -> dst.pc \in {"connect", "options"}
                             [] to_dst[i].of = "file" -> dst.pc = "meta" /\ to_dst[i].n = dst.n
                      /\ \A i \in DOMAIN to_src :
                           CASE to_src[i].of = "options" -> src.pc = "options_flag"
                             [] to_src[i].of = "file" -> src.pc = "meta_flag" /\ to_src[i].n = src.n
                             [] to_src[i].of = "end" -> src.pc \in {"transfer", "last_flag"} /\ sent = NumFiles
      BY DEF MainInStep, BothRun
  <2>1. src.pc \in SrcPhases /\ src.n \in Nat /\ NumFiles \in Nat
        BY FilesCount DEF PhasesTypes, MainTypes
  <2>2. CASE NothingSent
        BY <2>2, EmptySeq DEF NothingSent
  <2>a. ASSUME NEW m, OnlyToDst(m)
        PROVE  /\ Len(to_dst) + Len(to_src) = 1 /\ DOMAIN to_src = {}
               /\ \A i \in DOMAIN to_dst : to_dst[i] = m
        BY <2>a, OneMessage DEF OnlyToDst
  <2>b. ASSUME NEW m, OnlyToSrc(m)
        PROVE  /\ Len(to_dst) + Len(to_src) = 1 /\ DOMAIN to_dst = {}
               /\ \A i \in DOMAIN to_src : to_src[i] = m
        BY <2>b, OneMessage DEF OnlyToSrc
  <2>c. \A of, n : Message(of, n).of = of /\ Message(of, n).n = n
        BY DEF Message
  <2>3. CASE src.pc = "options_flag" /\ OnlyToDst(Message("options", 0)) /\ ~DstHasOptions
    <3>1. /\ Len(to_dst) + Len(to_src) <= 1 /\ DOMAIN to_src = {}
          /\ \A i \in DOMAIN to_dst : to_dst[i] = Message("options", 0)
          BY <2>3, <2>a
    <3>2. \A i \in DOMAIN to_dst : to_dst[i].of = "options" /\ to_dst[i].n = 0
          BY <3>1, <2>c
    <3> QED
          BY <2>3, <3>1, <3>2 DEF DstHasOptions
  <2>4. CASE src.pc = "options_flag" /\ OnlyToSrc(Message("options", 0))
    <3>1. /\ Len(to_dst) + Len(to_src) <= 1 /\ DOMAIN to_dst = {}
          /\ \A i \in DOMAIN to_src : to_src[i] = Message("options", 0)
          BY <2>4, <2>b
    <3>2. \A i \in DOMAIN to_src : to_src[i].of = "options" /\ to_src[i].n = 0
          BY <3>1, <2>c
    <3> QED
          BY <2>4, <3>1, <3>2
  <2>5. CASE src.pc = "meta_flag" /\ OnlyToDst(Message("file", src.n)) /\ DstHas(src.n)
    <3>1. /\ Len(to_dst) + Len(to_src) <= 1 /\ DOMAIN to_src = {}
          /\ \A i \in DOMAIN to_dst : to_dst[i] = Message("file", src.n)
          BY <2>5, <2>a
    <3>2. \A i \in DOMAIN to_dst : to_dst[i].of = "file" /\ to_dst[i].n = src.n
          BY <3>1, <2>c
    <3>3. src.n # NumFiles
          BY <2>1, <2>5 DEF PhasesTypes, SrcCounts
    <3> QED
          BY <2>5, <3>1, <3>2, <3>3 DEF DstHas
  <2>6. CASE src.pc = "meta_flag" /\ OnlyToSrc(Message("file", src.n))
    <3>1. /\ Len(to_dst) + Len(to_src) <= 1 /\ DOMAIN to_dst = {}
          /\ \A i \in DOMAIN to_src : to_src[i] = Message("file", src.n)
          BY <2>6, <2>b
    <3>2. \A i \in DOMAIN to_src : to_src[i].of = "file" /\ to_src[i].n = src.n
          BY <3>1, <2>c
    <3> QED
          BY <2>6, <3>1, <3>2
  <2>7. CASE src.pc \in {"transfer", "last_flag"} /\ OnlyToSrc(Message("end", 0)) /\ dst.pc = "join"
    <3>1. /\ Len(to_dst) + Len(to_src) <= 1 /\ DOMAIN to_dst = {}
          /\ \A i \in DOMAIN to_src : to_src[i] = Message("end", 0)
          BY <2>7, <2>b
    <3>2. \A i \in DOMAIN to_src : to_src[i].of = "end" /\ to_src[i].n = 0
          BY <3>1, <2>c
    <3>3. sent = NumFiles
          BY <2>1, <2>7 DEF MainLockStep, PhasesTypes, MainTypes
    <3> QED
          BY <2>7, <3>1, <3>2, <3>3
  <2> QED
        BY <2>1, <2>2, <2>3, <2>4, <2>5, <2>6, <2>7 DEF MainLockStep, SrcPhases
<1> QED
  BY <1>1, <1>2, LockInit, PhasesTypesInvariant, PTL DEF PhasesSpec

-------------------------------------------------------------------------------
(* Remote reads *)

LEMMA RemoteInitStep == PhasesInit => RemoteLockStep
  BY DEF PhasesInit, RemoteInit, RemoteLockStep, QuestionInStep, AnswerWhole

\* What may be answered to the whole of a key.
LEMMA AnswersRight ==
  ASSUME NEW k \in Keys, answerer.key = KeyOf(k)
  PROVE  Answers \subseteq AnswersFor(k)
<1>1. AskedKey = {k}
      BY KeyOfType DEF AskedKey
<1> QED
  BY <1>1 DEF Answers, AnswersFor

\* Two sequences that make the empty one are empty; one as long as the whole is
\* the whole.
LEMMA ConcatParts ==
  ASSUME NEW S, NEW s \in Seq(S), NEW t \in Seq(S)
  PROVE  /\ s \o t = <<>> => s = <<>> /\ t = <<>>
         /\ Len(s) >= Len(s \o t) => t = <<>> /\ s = s \o t
         /\ s \o <<>> = s /\ <<>> \o s = s
<1>1. s \o t \in Seq(S) /\ Len(s \o t) = Len(s) + Len(t) /\ Len(s) \in Nat /\ Len(t) \in Nat
      BY ConcatProperties, LenProperties
<1>2. s \o <<>> = s /\ <<>> \o s = s
      BY ConcatEmptySeq
<1>3. Len(t) = 0 => t = <<>>
      BY EmptySeq
<1>4. Len(s) = 0 => s = <<>>
      BY EmptySeq
<1>5. s \o t = <<>> => Len(s \o t) = 0
      BY EmptySeq
<1> QED
  BY <1>1, <1>2, <1>3, <1>4, <1>5

\* A step of the source's workload thread.
LEMMA AnswererRemoteStep ==
  ASSUME PhasesTypes, RemoteLockStep, Answerer, UNCHANGED mainVars
  PROVE  RemoteLockStep'
<1>1. dst_life' = dst_life /\ src_life = "running" /\ UNCHANGED <<asker, read, put_keys>>
      BY DEF Answerer, AnswerSize, AnswerKey, AnswerTimedOut, AnswerSend, AnswererAt
<1>2. CASE dst_life # "running"
      BY <1>1, <1>2 DEF RemoteLockStep, QuestionInStep, AnswerWhole, BothRun
<1>3. CASE dst_life = "running"
  <2>1. /\ key_wire \in Seq(KeyParts) /\ size_wire \in Seq(Nat) /\ answerer.key \in Seq(KeyParts)
        /\ answerer \in [pc : {"start", "size", "key", "ended"}, key : Seq(KeyParts), silent : BOOLEAN]
        /\ asker.key \in Keys /\ asker.value \in Seq(AnswerParts)
        BY DEF PhasesTypes, RemoteTypes
  <2>2. asker.pc \in {"start", "loop", "key", "recv", "ended"}
        BY DEF PhasesTypes, RemoteTypes
  <2>3. BothRun
        BY <1>1, <1>3 DEF BothRun
  <2>4. KeyPieces \in Nat /\ KeyPieces > 0
        BY RemoteAssumption
  <2>5. CASE AnswerSize
    <3>1. /\ answerer.pc = "size" /\ size_wire # <<>> /\ size_wire' = Tail(size_wire)
          /\ answerer' = [answerer EXCEPT !.pc = "key", !.key = <<>>]
          /\ UNCHANGED <<key_wire, value_wire>>
          BY <2>5 DEF AnswerSize, AnswererAt
    <3>2. answerer'.pc = "key" /\ answerer'.key = <<>>
          BY <2>1, <3>1
    <3>3. \E key_sent \in {<<>>, KeyOf(asker.key)} :
             /\ asker.pc = (IF key_sent = <<>> THEN "key" ELSE "recv")
             /\ Asking(key_sent) /\ key_wire = key_sent /\ Len(size_wire) = 1
      <4>1. KeyOf(asker.key) # <<>>
            BY <2>1, <2>4, KeyOfType, EmptySeq
      <4>2. asker.pc = "key" \/ asker.pc = "recv"
            BY <2>2, <2>3, <3>1 DEF RemoteLockStep, QuestionInStep
      <4> QED
            BY <2>3, <3>1, <4>1, <4>2 DEF RemoteLockStep, QuestionInStep, Asking
    <3>4. size_wire' = <<>>
      <4>1. Tail(size_wire) \in Seq(Nat) /\ Len(Tail(size_wire)) = Len(size_wire) - 1
            BY <2>1, <3>1, HeadTailProperties
      <4>2. Len(Tail(size_wire)) = 0
            BY <3>3, <4>1
      <4> QED
            BY <3>1, <4>1, <4>2, EmptySeq
    <3>5. answerer'.key \o key_wire' = key_wire
          BY <2>1, <3>1, <3>2, ConcatEmptySeq
    <3>6. \E key_sent \in {<<>>, KeyOf(asker.key)} :
             /\ asker.pc = (IF key_sent = <<>> THEN "key" ELSE "recv")
             /\ Asking(key_sent)'
          BY <1>1, <3>1, <3>2, <3>3, <3>4, <3>5 DEF Asking
    <3>7. asker.pc = "key" => Asking(<<>>)'
          BY <3>6 DEF Asking
    <3>8. asker.pc = "recv" => Asking(KeyOf(asker.key))'
          BY <1>1, <3>6 DEF Asking, KeyOf
    <3>9. asker.pc \in {"key", "recv"}
          BY <3>3
    <3>10. AnswerWhole'
          BY <1>1, <3>1 DEF RemoteLockStep, AnswerWhole, RightFor
    <3>11. QuestionInStep'
          BY <1>1, <3>7, <3>8, <3>9 DEF QuestionInStep
    <3> QED
          BY <3>10, <3>11 DEF RemoteLockStep
  <2>6. CASE AnswerKey
    <3>1. answerer.pc = "key" /\ Len(answerer.key) < KeyPieces /\ UNCHANGED <<size_wire, value_wire>>
          BY <2>6 DEF AnswerKey, AnswererAt
    <3>2. KeyPieces - Len(answerer.key) \in Nat
          BY <2>1, <2>4, <3>1, LenProperties
    <3>3. PICK chunk \in Chunks(key_wire, KeyPieces - Len(answerer.key)) :
            key_wire' = Rest(key_wire, chunk) /\ answerer' = [answerer EXCEPT !.key = @ \o chunk]
          BY <2>6 DEF AnswerKey
    <3>4. /\ chunk \in Seq(KeyParts) /\ key_wire' \in Seq(KeyParts)
          /\ chunk \o key_wire' = key_wire
          BY <2>1, <3>2, <3>3, ChunkProperties
    <3>5. answerer'.pc = "key" /\ answerer'.key = answerer.key \o chunk
          BY <2>1, <3>1, <3>3
    <3>6. answerer'.key \o key_wire' = answerer.key \o key_wire
      <4> DEFINE received == answerer.key
                 rest == key_wire'
      <4>1. received \in Seq(KeyParts) /\ rest \in Seq(KeyParts) /\ chunk \in Seq(KeyParts)
            BY <2>1, <3>4
      <4> HIDE DEF received, rest
      <4>2. (received \o chunk) \o rest = received \o (chunk \o rest)
            BY <4>1, ConcatAssociative
      <4>3. (answerer.key \o chunk) \o key_wire' = answerer.key \o (chunk \o key_wire')
            BY <4>2 DEF received, rest
      <4> QED
            BY <3>4, <3>5, <4>3
    <3>7. ASSUME NEW key_sent, Asking(key_sent)
          PROVE  /\ value_wire' = <<>> /\ asker'.value = <<>> /\ answerer'.pc = "key"
                 /\ size_wire' = <<>> /\ answerer'.key \o key_wire' = key_sent
          BY <1>1, <3>1, <3>5, <3>6, <3>7 DEF Asking
    <3>8. asker.pc = "key" => Asking(<<>>)
          BY <2>3 DEF RemoteLockStep, QuestionInStep
    <3>9. asker.pc = "recv" => Asking(KeyOf(asker.key))
          BY <2>3, <3>1 DEF RemoteLockStep, QuestionInStep
    <3>10. asker.pc \in {"key", "recv"}
          BY <2>2, <2>3, <3>1 DEF RemoteLockStep, QuestionInStep
    <3>11. (asker.pc = "key" => Asking(<<>>)') /\ (asker.pc = "recv" => Asking(KeyOf(asker.key))')
          BY <1>1, <3>7, <3>8, <3>9 DEF Asking
    <3>12. AnswerWhole'
          BY <1>1, <3>1 DEF RemoteLockStep, AnswerWhole, RightFor
    <3>13. QuestionInStep'
          BY <1>1, <3>10, <3>11 DEF QuestionInStep
    <3> QED
          BY <3>12, <3>13 DEF RemoteLockStep
  <2>7. CASE AnswerTimedOut
        BY <1>3, <2>7 DEF AnswerTimedOut
  <2>8. CASE AnswerSend
    <3>1. answerer.pc = "key" /\ Len(answerer.key) = KeyPieces /\ UNCHANGED <<size_wire, key_wire>>
          BY <2>8 DEF AnswerSend, AnswererAt
    <3>2. PICK answer \in Answers :
            /\ value_wire' = value_wire \o answer /\ src_life' = src_life
            /\ answerer' = [answerer EXCEPT !.pc = "size", !.silent = @ \/ answer = <<>>]
          BY <1>3, <2>8 DEF AnswerSend, Sent
    <3>3. asker.pc # "key"
      <4> SUFFICES ASSUME asker.pc = "key"
                   PROVE  FALSE
          OBVIOUS
      <4>1. Asking(<<>>)
            BY <2>3 DEF RemoteLockStep, QuestionInStep
      <4>2. answerer.key \o key_wire = <<>>
            BY <3>1, <4>1 DEF Asking
      <4>3. answerer.key = <<>>
            BY <2>1, <4>2, ConcatParts
      <4> QED
            BY <2>4, <3>1, <4>3, EmptySeq
    <3>4. asker.pc = "recv" /\ Asking(KeyOf(asker.key))
          BY <2>2, <2>3, <3>1, <3>3 DEF RemoteLockStep, QuestionInStep
    <3>5. size_wire = <<>> /\ value_wire = <<>> /\ asker.value = <<>>
          /\ answerer.key \o key_wire = KeyOf(asker.key)
          BY <3>1, <3>4 DEF Asking
    <3>6. key_wire = <<>> /\ answerer.key = KeyOf(asker.key)
      <4>1. Len(answerer.key) >= Len(answerer.key \o key_wire)
            BY <2>1, <2>4, <3>1, <3>5, KeyOfType
      <4> QED
            BY <2>1, <3>5, <4>1, ConcatParts
    <3>7. answer \in AnswersFor(asker.key)
          BY <2>1, <3>6, AnswersRight
    <3>8. answer \in Seq(AnswerParts)
          BY <2>1, <3>7, AnswerType, EmptySeq DEF AnswersFor
    <3>9. asker.value \o value_wire' = answer
          BY <3>2, <3>5, <3>8, ConcatParts
    <3>10. answerer'.pc = "size"
          BY <2>1, <3>2
    <3>11. AnswerWhole'
          BY <1>1, <3>4, <3>7, <3>9 DEF RemoteLockStep, AnswerWhole, RightFor, AnswersFor
    <3>12. QuestionInStep'
          BY <1>1, <3>1, <3>4, <3>5, <3>6, <3>10 DEF QuestionInStep
    <3> QED
          BY <3>11, <3>12 DEF RemoteLockStep
  <2> QED
        BY <2>5, <2>6, <2>7, <2>8 DEF Answerer
<1> QED
  BY <1>2, <1>3

\* A step of the destination's workload thread.
LEMMA AskerRemoteStep ==
  ASSUME PhasesTypes, RemoteLockStep, Asker, UNCHANGED mainVars
  PROVE  RemoteLockStep'
<1>1. src_life' = src_life /\ dst_life = "running" /\ answerer' = answerer
      BY DEF Asker, AskPut, AskLocal, AskSize, AskKey, AskRecv, AskTimedOut, AskEnd, AskerAt
<1>2. CASE dst_life' # "running"
      BY <1>2 DEF RemoteLockStep, QuestionInStep, AnswerWhole, BothRun
<1>3. CASE dst_life' = "running"
  <2>1. /\ key_wire \in Seq(KeyParts) /\ size_wire \in Seq(Nat) /\ value_wire \in Seq(AnswerParts)
        /\ asker \in [pc : {"start", "loop", "key", "recv", "ended"}, key : Keys, value : Seq(AnswerParts)]
        /\ asker.key \in Keys /\ asker.value \in Seq(AnswerParts) /\ answerer.key \in Seq(KeyParts)
        BY DEF PhasesTypes, RemoteTypes
  <2>2. asker.pc # "recv" => value_wire = <<>> /\ asker.value = <<>>
        BY <1>1 DEF RemoteLockStep, AnswerWhole
  <2>3. read.value # Nothing => RightFor(read.key, read.value)
        BY <1>1 DEF RemoteLockStep, AnswerWhole
  <2>4. BothRun' => BothRun
        BY <1>1 DEF BothRun
  <2>5. <<>> \in Seq(AnswerParts) /\ <<>> \in Seq(KeyParts) /\ <<>> \in Seq(Nat)
        BY EmptySeq
  <2>6. CASE \E k \in Keys : AskPut(k)
    <3>1. PICK k \in Keys : AskPut(k)
          BY <2>6
    <3>2. UNCHANGED <<size_wire, key_wire, value_wire, asker, read>> /\ put_keys \subseteq put_keys'
          BY <3>1 DEF AskPut
    <3>3. QuestionInStep'
          BY <1>1, <2>4, <3>2 DEF RemoteLockStep, QuestionInStep, Asking
    <3>4. AnswerWhole'
          BY <1>1, <3>2 DEF RemoteLockStep, AnswerWhole, RightFor
    <3> QED
          BY <3>3, <3>4 DEF RemoteLockStep
  <2>7. CASE \E k \in Keys : AskLocal(k)
    <3>1. PICK k \in Keys : AskLocal(k)
          BY <2>7
    <3>2. /\ UNCHANGED <<size_wire, key_wire, value_wire, asker, put_keys>>
          /\ store[k] # Nothing /\ read' = [key |-> k, value |-> store[k]]
          BY <3>1 DEF AskLocal
    <3>3. RightFor(k, store[k])
          BY <3>2 DEF PhasesTypes, StoreRight
    <3>4. QuestionInStep'
          BY <1>1, <2>4, <3>2 DEF RemoteLockStep, QuestionInStep, Asking
    <3>5. AnswerWhole'
          BY <1>1, <3>2, <3>3 DEF RemoteLockStep, AnswerWhole, RightFor
    <3> QED
          BY <3>4, <3>5 DEF RemoteLockStep
  <2>8. CASE \E k \in Keys : AskSize(k)
    <3>1. PICK k \in Keys : AskSize(k)
          BY <2>8
    <3>2. /\ asker.pc = "loop" /\ asker' = [pc |-> "key", key |-> k, value |-> <<>>]
          /\ UNCHANGED <<key_wire, value_wire, read, put_keys>>
          /\ src_life = "running" => size_wire' = size_wire \o <<KeyPieces>>
          BY <3>1 DEF AskSize, AskerAt, Sent
    <3>3. asker'.pc = "key" /\ asker'.value = <<>> /\ value_wire' = <<>>
          BY <2>2, <3>2
    <3>4. QuestionInStep'
      <4> SUFFICES ASSUME BothRun'
                   PROVE  Asking(<<>>)'
          BY <3>3 DEF QuestionInStep
      <4>1. size_wire = <<>> /\ key_wire = <<>> /\ answerer.pc \in {"start", "size"}
            BY <2>4, <3>2 DEF RemoteLockStep, QuestionInStep
      <4>2. size_wire' = <<KeyPieces>>
            BY <1>1, <3>2, <4>1 DEF BothRun
      <4> QED
            BY <1>1, <3>2, <3>3, <4>1, <4>2, OneMessage DEF Asking
    <3>5. AnswerWhole'
          BY <2>3, <3>2, <3>3 DEF AnswerWhole, RightFor
    <3> QED
          BY <3>4, <3>5 DEF RemoteLockStep
  <2>9. CASE AskKey
    <3>1. /\ asker.pc = "key" /\ asker' = [asker EXCEPT !.pc = "recv"]
          /\ UNCHANGED <<size_wire, value_wire, read, put_keys>>
          /\ src_life = "running" => key_wire' = key_wire \o KeyOf(asker.key)
          BY <2>9 DEF AskKey, AskerAt, Sent
    <3>2. asker'.pc = "recv" /\ asker'.key = asker.key /\ asker'.value = <<>> /\ value_wire' = <<>>
          BY <2>1, <2>2, <3>1
    <3>3. KeyOf(asker.key) \in Seq(KeyParts)
          BY <2>1, KeyOfType
    <3>4. QuestionInStep'
      <4> SUFFICES ASSUME BothRun'
                   PROVE  Asking(KeyOf(asker.key))'
          BY <3>2 DEF QuestionInStep
      <4>1. Asking(<<>>) /\ src_life = "running"
            BY <2>4, <3>1 DEF RemoteLockStep, QuestionInStep, BothRun
      <4>2. key_wire = <<>> /\ (answerer.pc = "key" => answerer.key = <<>>)
            BY <2>1, <4>1, ConcatParts DEF Asking
      <4>3. key_wire' = KeyOf(asker.key)
            BY <2>1, <3>1, <3>3, <4>1, <4>2, ConcatParts
      <4>4. answerer.pc = "key" => answerer.key \o key_wire' = KeyOf(asker.key)
            BY <2>1, <3>3, <4>2, <4>3, ConcatParts
      <4> QED
            BY <1>1, <3>1, <3>2, <4>1, <4>3, <4>4 DEF Asking, KeyOf
    <3>5. AnswerWhole'
      <4>1. asker'.value \o value_wire' = <<>>
            BY <2>5, <3>2, ConcatEmptySeq
      <4> QED
            BY <2>3, <3>1, <3>2, <4>1 DEF AnswerWhole, RightFor, AnswersFor
    <3> QED
          BY <3>4, <3>5 DEF RemoteLockStep
  <2>10. CASE AskRecv
    <3>0. asker.pc = "recv" /\ UNCHANGED <<size_wire, key_wire, put_keys>>
          BY <2>10 DEF AskRecv, AskerAt
    <3>1. PICK answer \in AnswersFor(asker.key) : answer = asker.value \o value_wire
          BY <1>1, <3>0 DEF RemoteLockStep, AnswerWhole
    <3>2. ValuePieces - Len(asker.value) \in Nat /\ ValuePieces \in Nat
          BY <2>1, RemoteAssumption, LenProperties DEF PhasesTypes, RemoteTypes
    <3>3. PICK chunk \in Chunks(value_wire, ValuePieces - Len(asker.value)) :
            LET value == asker.value \o chunk
            IN  /\ value_wire' = Rest(value_wire, chunk)
                /\ \/ /\ Len(value) = ValuePieces
                      /\ asker' = [asker EXCEPT !.pc = "loop", !.value = <<>>]
                      /\ read' = [key |-> asker.key, value |-> value]
                   \/ /\ asker' = [asker EXCEPT !.value = value]
                      /\ read' = read
          BY <1>3, <2>10 DEF AskRecv
    <3> DEFINE value == asker.value \o chunk
    <3>4. /\ chunk \in Seq(AnswerParts) /\ value_wire' \in Seq(AnswerParts)
          /\ chunk \o value_wire' = value_wire /\ Len(chunk) \in 1 .. Len(value_wire)
      <4>1. /\ chunk \in Seq(AnswerParts) /\ value_wire' \in Seq(AnswerParts)
            /\ chunk \o value_wire' = value_wire /\ Len(chunk) \in 1 .. ValuePieces - Len(asker.value)
            /\ Len(chunk) <= Len(value_wire)
            BY <2>1, <3>2, <3>3, ChunkProperties
      <4> QED
            BY <2>1, <4>1, LenProperties
    <3>5. value \in Seq(AnswerParts)
          BY <2>1, <3>4, ConcatProperties
    <3>6. value \o value_wire' = answer
      <4> DEFINE received == asker.value
                 rest == value_wire'
      <4>1. received \in Seq(AnswerParts) /\ rest \in Seq(AnswerParts) /\ chunk \in Seq(AnswerParts)
            BY <2>1, <3>4
      <4> HIDE DEF received, rest
      <4>2. (received \o chunk) \o rest = received \o (chunk \o rest)
            BY <4>1, ConcatAssociative
      <4>3. value \o value_wire' = asker.value \o (chunk \o value_wire')
            BY <4>2 DEF received, rest
      <4> QED
            BY <3>1, <3>4, <4>3
    <3> HIDE DEF value
    <3>7. CASE /\ Len(value) = ValuePieces
               /\ asker' = [asker EXCEPT !.pc = "loop", !.value = <<>>]
               /\ read' = [key |-> asker.key, value |-> value]
      <4>1. asker'.pc = "loop" /\ asker'.value = <<>> /\ read'.key = asker.key /\ read'.value = value
            BY <2>1, <3>7
      <4>2. answer \in Seq(AnswerParts) /\ Len(answer) <= ValuePieces /\ Len(NotFound) < ValuePieces
            /\ Len(<<>>) < ValuePieces
        <5>1. /\ ValueOf(asker.key) \in Seq(AnswerParts) /\ Len(ValueOf(asker.key)) = ValuePieces
              /\ NotFound \in Seq(AnswerParts) /\ Len(NotFound) < ValuePieces
              BY <2>1, AnswerType
        <5>2. Len(<<>>) = 0 /\ 0 < ValuePieces
              BY <2>1, AnswerType, EmptySeq DEF NotFoundPieces
        <5>3. answer = <<>> \/ answer = NotFound \/ answer = ValueOf(asker.key)
              BY <3>1 DEF AnswersFor
        <5> QED
          <6>1. CASE answer = <<>>
                BY <2>5, <3>2, <5>1, <5>2, <6>1
          <6>2. CASE answer = NotFound
            <7>1. Len(NotFound) \in Nat
                  BY <5>1, LenProperties
            <7> QED
                  BY <3>2, <5>1, <5>2, <6>2, <7>1
          <6>3. CASE answer = ValueOf(asker.key)
                BY <3>2, <5>1, <5>2, <6>3
          <6> QED
                BY <5>3, <6>1, <6>2, <6>3
      <4>3. value_wire' = <<>> /\ answer = value
            BY <3>4, <3>5, <3>6, <3>7, <4>2, ConcatParts
      <4>4. value = ValueOf(asker.key) /\ asker.key \notin Missing
            BY <3>2, <3>7, <4>2, <4>3 DEF AnswersFor
      <4>5. AnswerWhole'
            BY <4>1, <4>3, <4>4 DEF AnswerWhole, RightFor
      <4>6. QuestionInStep'
        <5> SUFFICES ASSUME BothRun'
                     PROVE  size_wire = <<>> /\ key_wire = <<>> /\ answerer.pc = "size"
            BY <1>1, <3>0, <4>1, <4>3 DEF QuestionInStep
        <5>1. value_wire # <<>>
              BY <3>4, EmptySeq
        <5> QED
              BY <2>4, <3>0, <5>1 DEF RemoteLockStep, QuestionInStep, Asking
      <4> QED
            BY <4>5, <4>6 DEF RemoteLockStep
    <3>8. CASE asker' = [asker EXCEPT !.value = value] /\ read' = read
      <4>1. asker'.pc = "recv" /\ asker'.value = value /\ asker'.key = asker.key
            BY <2>1, <3>0, <3>8
      <4>2. AnswerWhole'
            BY <2>3, <3>0, <3>1, <3>6, <3>8, <4>1 DEF AnswerWhole, RightFor, AnswersFor
      <4>3. QuestionInStep'
        <5> SUFFICES ASSUME BothRun'
                     PROVE  size_wire = <<>> /\ key_wire = <<>> /\ answerer.pc = "size"
            BY <1>1, <3>0, <4>1 DEF QuestionInStep
        <5>1. value_wire # <<>>
              BY <3>4, EmptySeq
        <5> QED
              BY <2>4, <3>0, <5>1 DEF RemoteLockStep, QuestionInStep, Asking
      <4> QED
            BY <4>2, <4>3 DEF RemoteLockStep
    <3> QED
          BY <3>3, <3>7, <3>8 DEF value
  <2>11. CASE AskTimedOut
         BY <1>3, <2>11 DEF AskTimedOut
  <2>12. CASE AskEnd
    <3>1. /\ asker.pc = "loop" /\ asker' = [asker EXCEPT !.pc = "ended"]
          /\ UNCHANGED <<size_wire, key_wire, value_wire, read, put_keys>>
          BY <2>12 DEF AskEnd, AskerAt
    <3>2. asker'.pc = "ended" /\ asker'.value = asker.value
          BY <2>1, <3>1
    <3>3. AnswerWhole'
          BY <2>2, <2>3, <3>1, <3>2 DEF AnswerWhole, RightFor
    <3>4. QuestionInStep'
          BY <1>1, <2>4, <3>1, <3>2 DEF RemoteLockStep, QuestionInStep
    <3> QED
          BY <3>3, <3>4 DEF RemoteLockStep
  <2> QED
        BY <2>6, <2>7, <2>8, <2>9, <2>10, <2>11, <2>12 DEF Asker
<1> QED
  BY <1>2, <1>3

\* The steps of the main threads leave the questions alone; they start the
\* threads.
LEMMA MainRemoteStep ==
  ASSUME PhasesTypes, ThreadsStart, RemoteLockStep,
         SrcMain \/ DstMain \/ SrcExits \/ DstExits \/ UNCHANGED phaseVars
  PROVE  RemoteLockStep'
<1>1. UNCHANGED <<size_wire, key_wire, value_wire, put_keys, read>>
  <2>1. CASE SrcMain
        BY <2>1 DEF SrcMain, ListenSocket, AcceptSocket, SendOptions, SendSstFileData, RecvFlag,
                    SrcStartThreads, SrcTransfer, SrcTransferStarves, SrcTransferJoined, SrcClose, workloadVars
  <2>2. CASE DstMain
        BY <2>2 DEF DstMain, ConnectSocket, RecvOptions, RecvSstFileData, DstStartThreads, DstTransfer,
                    DstTransferEof, DstTransferEnd, DstLastFlag, DstClose, workloadVars
  <2>3. CASE SrcExits \/ DstExits \/ UNCHANGED phaseVars
        BY <2>3 DEF SrcExits, DstExits, phaseVars, workloadVars
  <2> QED
        BY <2>1, <2>2, <2>3
<1>2. (BothRun' => BothRun) /\ (dst_life' = "running" => dst_life = "running")
      BY LivesStep DEF PhasesTypes, BothRun, PhasesNext
<1>3. CASE SrcStartThreads
  <2>1. answerer.pc = "start" /\ answerer' = [answerer EXCEPT !.pc = "size"] /\ asker' = asker
        BY <1>3 DEF SrcStartThreads, SrcAt, ThreadsStart
  <2>2. answerer'.pc = "size"
        BY <2>1 DEF PhasesTypes, RemoteTypes
  <2>3. AnswerWhole'
        BY <1>1, <1>2, <2>1 DEF RemoteLockStep, AnswerWhole, RightFor
  <2>4. QuestionInStep'
    <3>1. \A key_sent : Asking(key_sent) => Asking(key_sent)'
          BY <1>1, <2>1, <2>2 DEF Asking
    <3>2. CASE asker.pc = "key"
          BY <1>2, <2>1, <3>1, <3>2 DEF RemoteLockStep, QuestionInStep, Asking
    <3>3. CASE asker.pc = "recv"
      <4>1. BothRun' => Asking(KeyOf(asker.key))
            BY <1>2, <2>1, <3>3 DEF RemoteLockStep, QuestionInStep
      <4>2. BothRun' => Asking(KeyOf(asker.key))'
            BY <1>1, <2>1, <2>2, <4>1 DEF Asking
      <4> QED
            BY <2>1, <3>3, <4>2 DEF QuestionInStep
    <3>4. CASE asker.pc \in {"start", "loop", "ended"}
          BY <1>1, <1>2, <2>1, <2>2, <3>4 DEF RemoteLockStep, QuestionInStep
    <3> QED
          BY <3>2, <3>3, <3>4 DEF PhasesTypes, RemoteTypes
  <2> QED
        BY <2>3, <2>4 DEF RemoteLockStep
<1>4. CASE DstStartThreads
  <2>1. asker.pc = "start" /\ asker' = [asker EXCEPT !.pc = "loop"] /\ answerer' = answerer
        BY <1>4 DEF DstStartThreads, DstAt, ThreadsStart
  <2>2. asker'.pc = "loop" /\ asker'.value = asker.value
        BY <2>1 DEF PhasesTypes, RemoteTypes
  <2>3. AnswerWhole'
        BY <1>1, <1>2, <2>1, <2>2 DEF RemoteLockStep, AnswerWhole, RightFor
  <2>4. QuestionInStep'
        BY <1>1, <1>2, <2>1, <2>2 DEF RemoteLockStep, QuestionInStep
  <2> QED
        BY <2>3, <2>4 DEF RemoteLockStep
<1>5. CASE ~SrcStartThreads /\ ~DstStartThreads
  <2>1. UNCHANGED <<answerer, asker>>
    <3>1. CASE SrcMain
          BY <1>5, <3>1 DEF SrcMain, ListenSocket, AcceptSocket, SendOptions, SendSstFileData, RecvFlag,
                            SrcTransfer, SrcTransferStarves, SrcTransferJoined, SrcClose, workloadVars
    <3>2. CASE DstMain
          BY <1>5, <3>2 DEF DstMain, ConnectSocket, RecvOptions, RecvSstFileData, DstTransfer,
                            DstTransferEof, DstTransferEnd, DstLastFlag, DstClose, workloadVars
    <3>3. CASE SrcExits \/ DstExits \/ UNCHANGED phaseVars
          BY <3>3 DEF SrcExits, DstExits, phaseVars, workloadVars
    <3> QED
          BY <3>1, <3>2, <3>3
  <2>2. AnswerWhole'
        BY <1>1, <1>2, <2>1 DEF RemoteLockStep, AnswerWhole, RightFor
  <2>3. QuestionInStep'
        BY <1>1, <1>2, <2>1 DEF RemoteLockStep, QuestionInStep, Asking
  <2> QED
        BY <2>2, <2>3 DEF RemoteLockStep
<1> QED
  BY <1>3, <1>4, <1>5

\* Between two Gets nothing of a question or an answer is left on a wire, and a
\* Get has returned a whole and right value: for any keys, lengths of keys and
\* values, parts in which they arrive, and exits.
THEOREM ReadsRightCorrect == PhasesSpec => []ReadsRight
<1>1. PhasesInit => ThreadsStart /\ RemoteLockStep
      BY EndsInit, RemoteInitStep
<1>2. PhasesTypes /\ ThreadsStart /\ RemoteLockStep /\ [PhasesNext]_phaseVars => RemoteLockStep'
  <2> SUFFICES ASSUME PhasesTypes, ThreadsStart, RemoteLockStep, [PhasesNext]_phaseVars
               PROVE  RemoteLockStep'
      OBVIOUS
  <2>1. CASE Answerer /\ UNCHANGED mainVars
        BY <2>1, AnswererRemoteStep
  <2>2. CASE Asker /\ UNCHANGED mainVars
        BY <2>2, AskerRemoteStep
  <2>3. CASE SrcMain \/ DstMain \/ SrcExits \/ DstExits \/ UNCHANGED phaseVars
        BY <2>3, MainRemoteStep
  <2> QED
        BY <2>1, <2>2, <2>3 DEF PhasesNext
<1>3. PhasesTypes /\ RemoteLockStep => ReadsRight
      BY DEF RemoteLockStep, QuestionInStep, AnswerWhole, BothRun, RightFor, ReadsRight
<1> QED
  BY <1>1, <1>2, <1>3, ThreadsStep, PhasesTypesInvariant, PTL DEF PhasesSpec

===============================================================================
