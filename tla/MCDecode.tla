------------------------------ MODULE MCDecode ------------------------------
(***************************************************************************)
(* Fields of a 16-bit accumulator with 8-bit cells: a packed field has at  *)
(* most 2 bytes, a zoned one 4, a binary one 2, as a 128-bit accumulator   *)
(* has 19, 37 and 16.  The bytes hold every sign, the digits at both ends, *)
(* a nibble that is no digit, and the extreme binary values.               *)
(***************************************************************************)
EXTENDS Decode

(***************************************************************************)
(* A code page in the manner of cp037: a tab is control and white space, a *)
(* no-break space only white space, byte 4 is unassigned.                  *)
(***************************************************************************)
MCCodePage ==
    [b \in {0, 5, 64, 65, 78, 96, 193} \cup 240..249 |->
        CASE b = 0  -> "NUL" [] b = 5  -> "TAB" [] b = 64 -> " "
          [] b = 65 -> "NBSP" [] b = 78 -> "+" [] b = 96 -> "-"
          [] b = 193 -> "A"
          [] b = 240 -> "0" [] b = 241 -> "1" [] b = 242 -> "2"
          [] b = 243 -> "3" [] b = 244 -> "4" [] b = 245 -> "5"
          [] b = 246 -> "6" [] b = 247 -> "7" [] b = 248 -> "8"
          [] b = 249 -> "9"]
MCControl == {"NUL", "TAB"}
MCBlank == {"TAB", " ", "NBSP"}
MCNumeral ==
    [c \in {"0", "1", "2", "3", "4", "5", "6", "7", "8", "9"} |->
        CHOOSE n \in 0..9 : MCCodePage[240 + n] = c]

(***************************************************************************)
(* Texts: every short one of blanks, controls, signs and digits, and the   *)
(* numbers around the ends of the accumulator.                             *)
(***************************************************************************)
MCBytesOf(f) ==
    CASE f.kind # Text /\ f.size <= 2 ->
            [1..f.size -> {0, 1, 9, 12, 64, 127, 128, 153, 155, 157, 161, 209,
                           249, 255}]
      [] f.kind # Text /\ f.size \in 3..5 ->
            [1..f.size -> {1, 9, 58, 153, 217}]
      [] f.kind = Text /\ f.size <= 3 ->
            [1..f.size -> {0, 4, 5, 64, 65, 78, 96, 193, 240, 249}]
      [] f.kind = Text /\ f.size \in 4..5 ->
            [1..f.size -> {0, 64, 96, 249}]
      [] f.kind = Text /\ f.size = 6 ->
            {<<s, 243, 242, 247, 246, d>> :
                s \in {64, 78, 96, 240}, d \in {240, 247, 248, 249}}
      [] OTHER -> {[i \in 1..f.size |-> 240]}
=============================================================================
