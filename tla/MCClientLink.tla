----------------------------- MODULE MCClientLink -----------------------------
(***************************************************************************)
(* ClientLink with clients that send up to two messages, empty ones and    *)
(* ones of one byte each of header and body, so that every cut of a        *)
(* message happens and a read may find the next message behind the one it  *)
(* reads.  A length has two bytes of one bit each, so that it may be read  *)
(* in part, lengths are taken from each other's bytes and from text, and   *)
(* the sum of two wraps.                                                   *)
(***************************************************************************)
EXTENDS ClientLink

MCSizes == {<< <<0, 0>>, <<0, 0>> >>, << <<0, 1>>, <<0, 1>> >>}
BigEndian(bytes) == 2 * bytes[1] + bytes[2]
==============================================================================
