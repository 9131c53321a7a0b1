------------------------------- MODULE Common -------------------------------
(***************************************************************************)
(* The pure functions of common/common.c with which Twister programs read  *)
(* addresses and masks and compute checksums, and what they are to         *)
(* compute.  A character is given by its distance from '0', a string by    *)
(* the sequence of its characters.                                         *)
(***************************************************************************)
EXTENDS Integers, Sequences, FiniteSets, SequencesExt, FiniteSetsExt

CONSTANTS
  Field,    \* parts of dotted addresses
  First,    \* first parts (32-bit values below 2^31 are all that is tried)
  Word,     \* 16-bit words of a packet
  None

VARIABLE call    \* the function that is called and its argument, or None

Dot == -2
Letter(d) == 39 + d    \* the hexadecimal digit d >= 10 as a lower-case letter

tw_power(base, exp) == base ^ exp

tw_convert_str_to_int(str, n) ==
  MapThenSumSet(LAMBDA k : str[k] * tw_power(10, n - k), 1..n)

(* Mutant: letters are taken for the characters after '9'. *)
tw_convert_str_to_hexMutantAscii(str, length) ==
  MapThenSumSet(LAMBDA k : str[k] * 16 ^ (length - k), 1..length)

tw_convert_str_to_hex(str, length) ==
  MapThenSumSet(LAMBDA k : (IF str[k] > 9 THEN str[k] - 39 ELSE str[k]) * 16 ^ (length - k),
                1..length)

(* The positions of the first n characters c. *)
tw_find_char(str, c, n) ==
  SubSeq(SetToSortSeq({i \in DOMAIN str : str[i] = c}, <), 1, n)

(* Mutant: a field of four characters is accepted. *)
GoodLengthMutantFour(n) == n \in 1..4

GoodLength(n) == n \in 1..3

(* The four bytes, or <<>> for a field that is empty or too long.  A byte  *)
(* keeps the low eight bits of its number.                                 *)
tw_convert_str_to_iparr(value) ==
  LET ip == <<0>> \o tw_find_char(value, Dot, 3) \o <<Len(value) + 1>>
      temp(n) == SubSeq(value, ip[n] + 1, ip[n + 1] - 1)
  IN  IF \A n \in 1..4 : GoodLength(Len(temp(n)))
      THEN [n \in 1..4 |-> tw_convert_str_to_int(temp(n), Len(temp(n))) % 256]
      ELSE <<>>

tw_ip_arr_to_dec(ip) == ip[1] * 2^24 + ip[2] * 2^16 + ip[3] * 2^8 + ip[4]

tw_ip_dec_to_arr(ip) == [n \in 1..4 |-> (ip \div 256^(4 - n)) % 256]

tw_convert_ip_str_to_dec(ip_str) ==
  LET ip_arr == tw_convert_str_to_iparr(ip_str)
  IN  IF ip_arr # <<>> THEN tw_ip_arr_to_dec(ip_arr) ELSE 0

(* Mutant: the carry of the first addition is dropped. *)
tw_calcsumMutantNoCarry(buffer) ==
  LET s == FoldSeq(+, 0, buffer)
  IN  65535 - (((s \div 2^16) + (s % 2^16)) % 2^16)

(* Of a buffer of whole words: every caller passes sizeof(struct icmp_echo). *)
tw_calcsum(buffer) ==
  LET s == FoldSeq(+, 0, buffer)
      t == (s \div 2^16) + (s % 2^16)
  IN  65535 - ((t + (t \div 2^16)) % 2^16)

(***************************************************************************)
(* A program calls the functions while it starts.                          *)
(***************************************************************************)
Digits(s) == FoldLeft(LAMBDA n, d : 10 * n + d, 0, s)

Hex(d) == IF d > 9 THEN Letter(d) ELSE d

Call(fn, arg) == call = [fn |-> fn, arg |-> arg]

CommonInit ==
  \/ \E f \in First \X Field \X Field \X Field : Call("ip", f)
  \/ \E w \in Word \X Word \X Word : Call("sum", w)
  \/ \E d \in (0..15) \X (0..15) : Call("hex", d)

Return == call # None /\ call' = None

Calls(fn) == call # None /\ call.fn = fn

-----------------------------------------------------------------------------

(* Dotted addresses are read as four numbers of one to three digits, each  *)
(* modulo 256, and refused (0) when a field is empty or longer; the number *)
(* can be taken apart into the bytes it was made from.                     *)
AddressesRead ==
  Calls("ip") =>
    LET f == call.arg
        v == tw_convert_ip_str_to_dec(f[1] \o <<Dot>> \o f[2] \o <<Dot>> \o f[3] \o <<Dot>> \o f[4])
    IN  IF \E n \in 1..4 : Len(f[n]) \notin 1..3
        THEN v = 0
        ELSE tw_ip_dec_to_arr(v) = [n \in 1..4 |-> Digits(f[n]) % 256]

(* A packet with a checksum computed over a zeroed checksum field sums to  *)
(* zero, whatever carries the sum has.                                     *)
ChecksumVerifies ==
  Calls("sum") =>
    LET w == call.arg
        sum == tw_calcsum(<<w[1], 0, w[2], w[3]>>)
    IN  tw_calcsum(<<w[1], sum, w[2], w[3]>>) = 0

(* A lower-case hexadecimal port mask is read as its value. *)
MasksRead ==
  Calls("hex") =>
    LET d == call.arg
    IN  tw_convert_str_to_hex(<<Hex(d[1]), Hex(d[2])>>, 2) = 16 * d[1] + d[2]
=============================================================================
