------------------------------ MODULE MCListing ------------------------------
(* Instructions and data for TLC.  A word is given by its nibbles, the       *)
(* highest first; those that carry registers and offsets take few values.    *)
EXTENDS Listing

Word8(n) == UNION {{4 * (8 - k) + i : i \in {j \in 0 .. 3 : (n[k] \div 2 ^ j) % 2 = 1}} : k \in 1 .. 8}

\* Opcode bits: all values; registers: r0 and pc; low bits: a few offsets.
Systematic ==
    {<<c, a, b, n, d, s, m, l>> : c \in {1, 14}, a \in 0 .. 13, b \in 0 .. 15, n \in {0, 15},
                                  d \in {0, 15}, s \in {0, 15}, m \in {0, 1, 9, 11, 13}, l \in {4}}
Branching ==
    {<<c, a, x, y, y, y, y, l>> : c \in {14, 15}, a \in 10 .. 11, x \in {0, 3, 4, 7, 8, 11, 12, 15}, y \in {0, 15}, l \in {0, 2, 13, 14}}
Literals ==
    {<<c, 5, b, 15, d, 0, 0, l>> : c \in {0, 14, 15}, b \in 0 .. 15, d \in {0, 3, 15}, l \in {0, 1, 4, 12}}
Special ==
    {<<14, 1, 2, 0, 0, 0, 7, 1>>, <<14, 1, 6, 15, 0, 15, 1, 1>>, <<0, 14, 1, 0, 15, 0, 1, 0>>, <<14, 14, 1, 0, 15, 0, 1, 0>>,
     <<15, 12, 0, 0, 0, 0, 0, 0>>,
     <<0, 14, 0, 0, 1, 0, 0, 3>>, <<14, 14, 7, 3, 1, 2, 3, 4>>, <<14, 15, 0, 0, 0, 0, 0, 1>>,
     <<14, 1, 2, 15, 15, 15, 1, 3>>, <<14, 1, 10, 0, 0, 0, 0, 0>>, <<14, 1, 0, 15, 1, 0, 0, 0>>,
     <<14, 1, 4, 15, 1, 0, 0, 0>>, <<15, 12, 5, 1, 2, 3, 4, 5>>, <<14, 1, 2, 9, 15, 0, 0, 3>>,
     <<14, 3, 2, 1, 15, 0, 0, 3>>, <<14, 1, 4, 1, 2, 0, 5, 3>>, <<14, 1, 4, 1, 2, 3, 14, 4>>}
    \cup {<<14, 3, b, 0, 15, s, 0, l>> : b \in {10, 14}, s \in {0, 1, 15}, l \in {0, 2}}

\* The instruction at 4 of 20 bytes, which are all different otherwise.
MemoryWith(word) ==
    [i \in 0 .. 19 |-> IF i \in 4 .. 7 THEN {b \in 0 .. 7 : 8 * (i - 4) + b \in word}
                       ELSE {b \in 0 .. 4 : ((i + 3) \div 2 ^ b) % 2 = 1}]

\* Text: printable bytes, controls, quotation marks and zeros.
Text == [i \in 0 .. 19 |->
    LET b == <<97, 34, 10, 0, 92, 110, 1, 13, 9, 0, 0, 98, 99, 200, 34, 65, 66, 67, 68, 69>>[i + 1]
    IN  {k \in 0 .. 7 : (b \div 2 ^ k) % 2 = 1}]

AllCases ==
    {[mem |-> MemoryWith(Word8(n)), at |-> 4, type |-> "code"] : n \in Systematic \cup Branching \cup Literals \cup Special}
    \cup {[mem |-> Text, at |-> a, type |-> t] :
             a \in 0 .. 20, t \in DOMAIN SizeOf \cup {"code", "string"}}
=============================================================================
