------------------------------ MODULE Checksum ------------------------------
(* The incremental checksum update of network_headers.h, with the overflow  *)
(* of its 32-bit arithmetic, and the three checksums that a NAT rewrite of  *)
(* an ICMP error maintains (action_nat.c): of the outer IPv4 header, of the *)
(* quoted inner header, and of the ICMP message, which covers the quoted    *)
(* header and its checksum.                                                 *)
EXTENDS Integers

CONSTANT M       \* values of a checksum word: 2^16 in the code

ASSUME MAssumption == M \in Nat /\ M >= 2

W == M * M       \* values of uint32_t
Word == 0 .. M - 1
NonZero == 1 .. M - 1
Addr == 0 .. W - 1

-----------------------------------------------------------------------------
(* network_headers.h *)

\* Mutant: the carry is lost.
AddNoCarry(x, y) == (x + y) % W

\* res = x + y; res + (res < y)
AddCarry(x, y) ==
  LET res == (x + y) % W
  IN  res + (IF res < y THEN 1 ELSE 0)

\* sum = (sum & 0xffff) + (sum >> 16)
FoldOnce(sum) == (sum % M) + (sum \div M)

\* Mutant: one fold is enough.
cksum_update_fold_once(csum, from, to) ==
  LET sum == AddCarry(AddCarry(W - 1 - csum, W - 1 - from), to)
  IN  M - 1 - (FoldOnce(sum) % M)

cksum_update(csum, from, to) ==
  LET sum == AddCarry(AddCarry(W - 1 - csum, W - 1 - from), to)
  IN  M - 1 - (FoldOnce(FoldOnce(sum)) % M)

-----------------------------------------------------------------------------
(* The checksums of one packet.  `rest' stands for the words that NAT does  *)
(* not touch; it is not 0 (IP version, ICMP type).                          *)
VARIABLES
  address, rest, hdr_checksum,                     \* outer IPv4 header
  inner_address, inner_rest, inner_hdr_checksum,   \* quoted IPv4 header
  icmp_rest, icmp_cksum                            \* ICMP message

outer == <<address, rest, hdr_checksum>>
inner == <<inner_address, inner_rest, inner_hdr_checksum, icmp_rest, icmp_cksum>>
vars == <<outer, inner>>

\* The two 16-bit words of an address.
Words(a) == (a \div M) + (a % M)

\* RFC 1071: the one's complement sum of all words, the checksum included, is
\* the word of ones; that is, their sum is a positive multiple of M - 1.
SumIsOnes(sum) == sum > 0 /\ sum % (M - 1) = 0

\* A checksum of the packet is right when it is received by the next hop.
OuterValid == SumIsOnes(Words(address) + rest + hdr_checksum)
InnerValid == SumIsOnes(Words(inner_address) + inner_rest + inner_hdr_checksum)
IcmpValid ==
  SumIsOnes(Words(inner_address) + inner_rest + inner_hdr_checksum + icmp_rest + icmp_cksum)

ChecksumTypeOK ==
  /\ address \in Addr /\ rest \in NonZero /\ hdr_checksum \in Word
  /\ inner_address \in Addr /\ inner_rest \in NonZero /\ inner_hdr_checksum \in Word
  /\ icmp_rest \in NonZero /\ icmp_cksum \in Word

\* A packet whose checksums are right arrives.
Init == ChecksumTypeOK /\ OuterValid /\ InnerValid /\ IcmpValid

\* Mutant: the checksum is updated against the address that was just written.
RewriteOuterStale(to) ==
  /\ address' = to
  /\ hdr_checksum' = cksum_update(hdr_checksum, address', to)
  /\ rest' = rest

\* action_nat_rewrite_impl: the address of the outer header and its checksum.
RewriteOuter(to) ==
  /\ address' = to
  /\ hdr_checksum' = cksum_update(hdr_checksum, address, to)
  /\ rest' = rest

\* Mutant: the ICMP checksum is updated for the address only.
RewriteInnerHalf(to) ==
  /\ inner_address' = to
  /\ inner_hdr_checksum' = cksum_update(inner_hdr_checksum, inner_address, to)
  /\ icmp_cksum' = cksum_update(icmp_cksum, inner_address, to)
  /\ UNCHANGED <<inner_rest, icmp_rest>>

\* icmp_nat_handle: the inner checksum, then the ICMP checksum for the change of
\* the inner checksum, then the ICMP checksum for the change of the address.
RewriteInner(to) ==
  /\ inner_address' = to
  /\ inner_hdr_checksum' = cksum_update(inner_hdr_checksum, inner_address, to)
  /\ icmp_cksum' = cksum_update(
                     cksum_update(icmp_cksum, inner_hdr_checksum, inner_hdr_checksum'),
                     inner_address, to)
  /\ UNCHANGED <<inner_rest, icmp_rest>>

\* A NAT action on a packet that quotes no header, and on an ICMP error.
Rewrite(to) == RewriteOuter(to) /\ UNCHANGED inner
RewriteError(to, inner_to) == RewriteOuter(to) /\ RewriteInner(inner_to)

Next ==
  \/ \E to \in Addr : Rewrite(to)
  \/ \E to, inner_to \in Addr : RewriteError(to, inner_to)

Spec == Init /\ [][Next]_vars

-----------------------------------------------------------------------------
\* However often source and destination are rewritten, every checksum of the
\* packet stays the one that a computation from scratch accepts.
ChecksumsValid == OuterValid /\ InnerValid /\ IcmpValid

\* A rewrite never produces the other one's complement zero, 0xffff: the result
\* is what a full computation over the header (not all zero) yields.
UpdatesAreCanonical ==
  [][/\ address' # address => hdr_checksum' # M - 1
     /\ inner_address' # inner_address =>
          inner_hdr_checksum' # M - 1 /\ icmp_cksum' # M - 1]_vars

\* The inductive invariant of the proof.
ChecksumInv == ChecksumTypeOK /\ ChecksumsValid
=============================================================================
