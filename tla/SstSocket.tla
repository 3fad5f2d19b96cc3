------------------------------ MODULE SstSocket ------------------------------
(***************************************************************************)
(* What the two ends of an SSTable transfer share: the files to move and   *)
(* the two TCP connections sst_fds[0] and sst_fds[1] between them.         *)
(*                                                                         *)
(* sst_fds[0] carries fixed-size headers from the source (an int file_num, *)
(* then one size_t per pair) and int flags back; sst_fds[1] carries the    *)
(* bytes of the "key,value" strings.  TCP keeps each direction of each     *)
(* connection in order; nothing orders one connection against the other.   *)
(***************************************************************************)
EXTENDS Naturals, Sequences

CONSTANTS
  NumFiles,    \* number of live SSTables of the source (num_files)
  NumQueues,   \* length of the kv_pairs ring on either side (num_queues)
  NumEntries,  \* [Files -> Nat]: num_entries of the file's metadata
  SstData,     \* [Files -> Seq(Nat)]: size of each pair the file's iterator yields
  HeaderCap,   \* headers the buffers of sst_fds[0] hold before send blocks
  PayloadCap,  \* pairs the buffers of sst_fds[1] hold before send blocks
  MayFail,     \* the calls that may return an error, out of "open", "write", "ingest", "workload"
  Uninit,      \* values an uninitialised data_size may hold
  Null,        \* a null kv_pairs pointer
  Garbage      \* a string that is not a pair of the source

Files == 0 .. NumFiles - 1

\* A pair is named by its file and its position in the file's iteration order.
Pair == {p \in Files \X Nat : p[2] \in 1 .. Len(SstData[p[1]])}

ASSUME SizesAssumption ==
  /\ NumFiles \in Nat
  /\ NumQueues \in Nat \ {0}
  /\ HeaderCap \in Nat \ {0}
  /\ PayloadCap \in Nat \ {0}
  /\ Uninit \subseteq Nat

\* num_entries counts every entry of the file; the iterator yields only the
\* live ones, so it may yield fewer, never more.
ASSUME DataAssumption ==
  /\ NumEntries \in [Files -> Nat \ {0}]
  /\ SstData \in [Files -> Seq(Nat \ {0})]
  /\ \A f \in Files : Len(SstData[f]) <= NumEntries[f]

ASSUME NullAssumption == Garbage \notin Pair /\ Null \notin Seq(Pair \cup {Garbage})

PairSize(p) == SstData[p[1]][p[2]]

\* The whole of file f, as the source's iterator yields it.
Contents(f) == [i \in 1 .. Len(SstData[f]) |-> <<f, i>>]

QueueNum(file_num) == file_num % NumQueues

FileNumHeader(f) == [kind |-> "file_num", val |-> f]
SizeHeader(n)    == [kind |-> "data_size", val |-> n]
Header == [kind : {"file_num", "data_size"}, val : Nat]

VARIABLES
  headers,   \* sst_fds[0], source to destination
  flags,     \* sst_fds[0], destination to source: unread flags, each the int 1
  payload,   \* sst_fds[1]: pairs with bytes not yet received
  src_up,    \* FALSE once the source process has exited
  dst_up     \* FALSE once the destination process has exited

sockVars == <<headers, flags, payload, src_up, dst_up>>

SocketTypeOK ==
  /\ headers \in Seq(Header)
  /\ flags \in Nat
  /\ payload \in Seq(Pair)
  /\ src_up \in BOOLEAN
  /\ dst_up \in BOOLEAN

SocketInit ==
  /\ headers = <<>>
  /\ flags = 0
  /\ payload = <<>>
  /\ src_up = TRUE
  /\ dst_up = TRUE

==============================================================================
