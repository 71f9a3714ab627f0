-------------------------------- MODULE Wire ---------------------------------
(***************************************************************************)
(* The two 16-bit words of the protocol (common/messages.h): the header,   *)
(* CODEREQ in 13 bits, ID in 2 and EQ in 1, and the action word, NUM in 13 *)
(* bits and ACTION in 3.  The macros that set a field keep the others, and *)
(* or the new value in, shifted but not masked; the result is stored in a  *)
(* uint16_t.                                                               *)
(*                                                                         *)
(* Masks and shifts are arithmetic here: a field of w bits that starts at  *)
(* bit s is (word \div 2^s) % 2^w.                                         *)
(*                                                                         *)
(* A definition named X_Defect is X with a defect; nothing uses it.        *)
(***************************************************************************)
EXTENDS Integers

Words == {w \in Nat : w < 65536}
Codes == 0..8191

GET_CODEREQ(h) == h % 8192
GET_ID(h)      == (h \div 8192) % 4
GET_EQ(h)      == h \div 32768

SET_CODEREQ_Adds(h, c) == (h + c) % 65536

(* CODEREQ is cleared and c, a code of 13 bits, put in its place.          *)
SET_CODEREQ(h, c) == h - GET_CODEREQ(h) + c

(* ID is cleared; of id << 13, bits 13 to 15 are left in 16 bits, and the  *)
(* last of them is ored to EQ.                                             *)
SET_ID(h, id) ==
  LET eq == IF (id \div 4) % 2 = 1 THEN 1 ELSE GET_EQ(h)
  IN GET_CODEREQ(h) + 8192 * (id % 4) + 32768 * eq

(* EQ is cleared; of eq << 15, bit 15 is left in 16 bits.                  *)
SET_EQ(h, eq) == (h % 32768) + 32768 * (eq % 2)

GET_NUM(a)    == a % 8192
GET_ACTION(a) == a \div 8192

SET_NUM(a, num)       == a - GET_NUM(a) + num
SET_ACTION(a, action) == GET_NUM(a) + 8192 * (action % 8)

(* htons and ntohs, on the little-endian machines this is built for.       *)
htons(w) == 256 * (w % 256) + (w \div 256)
ntohs(w) == htons(w)

T_CHAT_ALL_PLAYERS == 7
T_CHAT_TEAM        == 8
SERVER_TCHAT_SENT_ALL_PLAYERS         == 13
SERVER_TCHAT_SENT_TEAM                == 14
SERVER_RESPONSE_MATCH_END_4_OPPONENTS == 15
SERVER_RESPONSE_MATCH_END_2_TEAMS     == 16

=============================================================================
