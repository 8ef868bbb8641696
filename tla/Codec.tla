------------------------------- MODULE Codec -------------------------------
(***************************************************************************)
(* The length field of the legacy pipe protocol's 4-byte frame header      *)
(* (src/library/protocol.c): type, one unused byte, then the frame length  *)
(* (header included) big-endian in bytes 2 and 3.  Bytes are numbers.      *)
(***************************************************************************)
EXTENDS Naturals

\* store_length: bits 8..15 of the length in byte 2, bits 0..7 in byte 3
StoreLength(length) == << (length % 65536) \div 256, length % 256 >>

\* compute_length: (cp[2] << 8) | cp[3] of the header
ComputeLength(b) == b[3] * 256 + b[4]

=============================================================================
