-------------------------------- MODULE CCM --------------------------------
(***************************************************************************)
(* crypt/crypt.go: counter mode with CBC-MAC, as far as gw3 uses it (Open). *)
(* A byte is a number below 256; a key and a block are sequences of bytes. *)
(*                                                                         *)
(* The block cipher itself comes from Go's library.  Here it is a function *)
(* that mixes all bytes of the key and of the block into each byte of the  *)
(* result; nothing else about it is used.                                  *)
(***************************************************************************)
EXTENDS Integers, Sequences, Bitwise

Zeros(n) == [j \in 1..n |-> 0]

aes(key, block) ==
  LET b == key \o block
      mix[j \in 0..Len(b)] == IF j = 0 THEN 7 ELSE (31 * mix[j - 1] + b[j] + j) % 65521
      h == mix[Len(b)]
  IN  [j \in 1..16 |-> ((h * (2 * j + 3)) \div 16 + 77 * j) % 256]

(* A table, because ^^ works bit by bit.                                   *)
XorByte == [x \in 0..255 |-> [y \in 0..255 |-> x ^^ y]]

xorBytes(a, b) ==
  [j \in 1..(IF Len(b) < Len(a) THEN Len(b) ELSE Len(a)) |-> XorByte[a[j]][b[j]]]

(* u as n bytes, the high byte first.                                      *)
putUvarint(n, u) == [j \in 1..n |-> IF n - j > 2 THEN 0 ELSE (u \div 256^(n - j)) % 256]

(* The largest number of n bytes; lengths here are less than 2^16.         *)
maxUvarint(n) == IF n > 2 THEN 2^24 ELSE 256^n - 1

-----------------------------------------------------------------------------
(***************************************************************************)
(* type mac: ci is xored with what is written, p bytes of it so far, and   *)
(* encrypted when it is full and when it is padded.                        *)
(***************************************************************************)
NewMAC == [ci |-> Zeros(16), p |-> 0]

Encrypt(key, m) == [ci |-> aes(key, m.ci), p |-> 0]

Write(key, mac, bytes) ==
  LET w[j \in 0..Len(bytes)] ==
        IF j = 0 THEN mac
        ELSE LET last == w[j - 1]
                 m    == IF last.p >= 16 THEN Encrypt(key, last) ELSE last
             IN  [ci |-> [m.ci EXCEPT ![m.p + 1] = XorByte[@][bytes[j]]], p |-> m.p + 1]
  IN  w[Len(bytes)]

PadZero_None(key, mac) == mac   \* slip: the next part goes on in the same block

PadZero(key, mac) == IF mac.p # 0 THEN Encrypt(key, mac) ELSE mac

Sum(key, mac) == PadZero(key, mac).ci

(* The first block has the counter block's nonce, other flags, and the     *)
(* length.  With a tag of no bytes its flags overflow, and nothing is      *)
(* compared with the result.                                               *)
getTag(key, nonce, tagSize, data, plaintext) ==
  LET n     == Len(nonce)
      flags == ((14 - n) | ((((tagSize - 2) \div 2) * 8) % 256))
      b0(f) == <<f>> \o nonce \o putUvarint(15 - n, Len(plaintext))
      head  == IF data = <<>> THEN Write(key, NewMAC, b0(flags))
               ELSE PadZero(key, Write(key,
                      Write(key, NewMAC, b0(flags | 64) \o putUvarint(2, Len(data))), data))
  IN  Sum(key, PadZero(key, Write(key, head, plaintext)))

Counter(nonce, j) == <<14 - Len(nonce)>> \o nonce \o Zeros(14 - Len(nonce)) \o <<j>>

(* cipher.NewCTR from the counter block 1 on.                              *)
XORKeyStream(key, nonce, src) ==
  LET stream == [j \in 0..(Len(src) \div 16) |-> aes(key, Counter(nonce, j + 1))]
  IN  [j \in 1..Len(src) |-> XorByte[src[j]][stream[(j - 1) \div 16][((j - 1) % 16) + 1]]]

Error == [ok |-> FALSE, plain |-> <<>>]

Open_Untagged(key, nonce, tagSize, ciphertext, data) ==   \* slip: the tag is not compared
  [ok |-> TRUE, plain |-> XORKeyStream(key, nonce, SubSeq(ciphertext, 1, Len(ciphertext) - tagSize))]

(* The caller sees to it that there is more than the tag: Open panics else. *)
Open(key, nonce, tagSize, ciphertext, data) ==
  LET n     == Len(ciphertext) - tagSize
      plain == XORKeyStream(key, nonce, SubSeq(ciphertext, 1, n))
      tag   == xorBytes(getTag(key, nonce, tagSize, data, plain), aes(key, Counter(nonce, 0)))
  IN  IF /\ n <= maxUvarint(15 - Len(nonce))
         /\ SubSeq(tag, 1, tagSize) = SubSeq(ciphertext, n + 1, n + tagSize)
        THEN [ok |-> TRUE, plain |-> plain]
        ELSE Error

=============================================================================
