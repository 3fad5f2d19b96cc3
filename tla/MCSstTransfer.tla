---------------------------- MODULE MCSstTransfer ----------------------------
(***************************************************************************)
(* Instances of SstTransfer for TLC.                                       *)
(***************************************************************************)
EXTENDS DstInvariants, TLC

\* Three files over a ring of two slots; pairs of one and two bytes, so that a
\* payload may come in one recv or in two.
MixedData == 0 :> <<2, 1>> @@ 1 :> <<1>> @@ 2 :> <<2>>

\* Files of two pairs each.
PairedData == [f \in Files |-> <<1, 1>>]

\* Files of one pair each.
SingleData == [f \in Files |-> <<1>>]

\* No tombstone: num_entries is what the iterator yields.
AllLive == [f \in Files |-> Len(SstData[f])]

\* A deletion in the last file: num_entries counts it, the iterator does not
\* yield it.
LastHasDeletion == [AllLive EXCEPT ![NumFiles - 1] = @ + 1]

==============================================================================
