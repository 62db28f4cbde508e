------------------------------- MODULE Cipher -------------------------------
(***************************************************************************)
(* Cipher of plugins/websocket/ws/cipher.go: which bytes of the mask are   *)
(* XORed to each byte of the payload, and by which of its loops.           *)
(* Long payloads are ciphered by words of eight bytes, with the bytes      *)
(* before and after the words done one by one.                             *)
(***************************************************************************)
EXTENDS Integers

\* Position in the mask to the number of bytes done before the first word.
remain == [mpos \in 0..3 |-> IF mpos = 0 THEN 0 ELSE 4 - mpos]

CipherLeft(offset) == remain[offset % 4]

\* Mutant: the words are taken for four bytes long.
CipherRightShort(n, offset) == (n - CipherLeft(offset)) % 4

CipherRight(n, offset) == (n - CipherLeft(offset)) % 8

\* The words cover whole groups of eight bytes; each byte of a word meets the
\* byte of the doubled mask m2 at the same place.
CipherWords(n, offset) == (n - CipherLeft(offset) - CipherRight(n, offset)) \div 8

InWords(n, offset, i) ==
    CipherLeft(offset) <= i /\ i < CipherLeft(offset) + 8 * CipherWords(n, offset)

\* The XORs done to byte i of n: the loop that does one, and the byte of the
\* mask it uses.
Passes == {"short", "left", "right", "words"}

CipherByte(n, offset, i) ==
    IF n < 8 THEN {<<"short", (offset + i) % 4>>}
    ELSE (IF i < CipherLeft(offset) THEN {<<"left", ((offset % 4) + i) % 4>>} ELSE {})
         \cup (IF i >= n - CipherRight(n, offset)
               THEN {<<"right", ((offset % 4) + i) % 4>>} ELSE {})
         \cup (IF InWords(n, offset, i)
               THEN {<<"words", ((i - CipherLeft(offset)) % 8) % 4>>} ELSE {})

\* Byte i is XORed once, with the byte of the mask that RFC 6455 prescribes.
MaskedOnce(n, offset, i) ==
    \E pass \in Passes : CipherByte(n, offset, i) = {<<pass, (offset + i) % 4>>}
=============================================================================
