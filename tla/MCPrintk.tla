------------------------------ MODULE MCPrintk ------------------------------
(***************************************************************************)
(* A buffer of 12 characters that is sent when 6 are left, one more than   *)
(* the longest conversion needs (a pointer: 0x and 3 digits); shorts of 4  *)
(* bits, ints of 6 and longs of 10, with arguments at the ends of their    *)
(* ranges and where a base gets a digit more; a letter below 128 and one   *)
(* above, of which no conversion is named, and words of every length that  *)
(* fits what is spared.                                                    *)
(***************************************************************************)
EXTENDS Printk

Ends(bits) == {-(2^(bits - 1)), 1 - 2^(bits - 1), 2^(bits - 1) - 1}
Small == {-10, -9, -1, 0, 1, 7, 8, 9, 10, 15, 16}

Shorts == {-8, -1, 0, 7, 8, 15}
Ints == Ends(6) \cup Small
Longs == Ends(10) \cup Small
Addresses == {0, 15, 16, 255, 256, 1023}

K == 107
B == 200
Some == {<<>>, <<K>>, <<B>>, <<K, K>>, <<K, B>>, <<B, K, B>>, <<K, K, K, K, K>>,
         <<K, B, K, B, K, B>>}
=============================================================================
