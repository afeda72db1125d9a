--------------------------------- MODULE Aead ---------------------------------
(***************************************************************************)
(* chacha20poly1305.hpp and the file layout of EncryptedFileStore, over    *)
(* narrower limbs, words, bytes and blocks: the keystream, the Poly1305    *)
(* accumulator and its buffer, seal and open.  What the twenty rounds make *)
(* of key, nonce and counter is Stream.                                    *)
(***************************************************************************)
EXTENDS Numerals, Bitwise

CONSTANTS
  Radix, Word,       \* the accumulator's limbs, and the width of its words
  Clamp,             \* the bits its multiplier keeps, limb by limb
  Byte, MacBlock,    \* the bytes, and how many a block of the accumulator takes
  StreamBlock,       \* and of the keystream
  NonceLen,
  Stream(_, _, _),   \* one block: of a key, a nonce and a counter
  None

W(v) == v % Word

Top == Byte^MacBlock     \* the bit above a full block: 2^128

Zeros(n) == [i \in 1 .. n |-> 0]

After(s, n) == SubSeq(s, n + 1, Len(s))

----------------------------------------------------------------------------
\* chacha20_xor: block after block from counter on.
XorStream(key, counter, nonce, in) ==
  FoldLeft(LAMBDA out, k :
             LET block == Stream(key, nonce, counter + k - 1)
                 off   == StreamBlock * (k - 1)
                 n     == IF Len(in) - off < StreamBlock THEN Len(in) - off ELSE StreamBlock
             IN out \o [i \in 1 .. n |-> in[off + i] ^^ block[i]],
           <<>>, Indices((Len(in) + StreamBlock - 1) \div StreamBlock))

----------------------------------------------------------------------------
\* One pass of carries from limb to limb, five-fold from the top to the bottom.
Ripple(d) ==
  LET step(acc, i) == LET v == d[i] + acc.carry
                      IN [h |-> Append(acc.h, v % Radix), carry |-> W(v \div Radix)]
      run == FoldLeft(step, [h |-> <<>>, carry |-> 0], Indices(5))
      low == W(run.h[1] + 5 * run.carry)
  IN [run.h EXCEPT ![1] = low % Radix, ![2] = @ + low \div Radix]

\* Poly1305::blocks, for one block; hi is the bit above it, none for a padded one.
Absorb(h, r, block, hi) ==
  LET b == LimbsOf(ValueOf(block, Byte) + hi, Radix, 5)
      g == [i \in 1 .. 5 |-> W(h[i] + b[i])]
      s == [i \in 1 .. 5 |-> W(5 * r[i])]
  IN Ripple([k \in 1 .. 5 |-> SumOver(1 .. 5, LAMBDA i :
               g[i] * (IF i <= k THEN r[k - i + 1] ELSE s[k - i + 6]))])

\* Poly1305::init
Keyed(key) ==
  LET r == LimbsOf(ValueOf(SubSeq(key, 1, MacBlock), Byte), Radix, 5)
  IN [h |-> Zeros(5), r |-> [i \in 1 .. 5 |-> r[i] & Clamp[i]], buffer |-> <<>>,
      pad |-> ValueOf(SubSeq(key, MacBlock + 1, 2 * MacBlock), Byte)]

Absorbed(mac, block) == [mac EXCEPT !.h = Absorb(mac.h, mac.r, block, Top)]

\* Poly1305::update: the block under way first, whole blocks, and the rest is kept.
Update(mac, m) ==
  LET want  == IF mac.buffer = <<>> THEN 0
               ELSE IF Len(m) < MacBlock - Len(mac.buffer) THEN Len(m)
               ELSE MacBlock - Len(mac.buffer)
      begun == mac.buffer \o SubSeq(m, 1, want)
      rest  == After(m, want)
      whole == Len(rest) \div MacBlock
      first == IF Len(begun) = MacBlock THEN Absorbed(mac, begun) ELSE mac
  IN IF begun # <<>> /\ Len(begun) < MacBlock THEN [mac EXCEPT !.buffer = begun]
     ELSE [FoldLeft(LAMBDA x, k : Absorbed(x, SubSeq(rest, MacBlock * (k - 1) + 1, MacBlock * k)),
                    first, Indices(whole))
             EXCEPT !.buffer = After(rest, MacBlock * whole)]

\* Seeded fault: the sum is taken as it is.
FrozenNever(h) == h

\* The sum less the prime where it does not borrow.
Frozen(h) ==
  LET step(acc, i) == LET v == h[i] + acc.carry
                      IN [g |-> Append(acc.g, v % Radix), carry |-> v \div Radix]
      run == FoldLeft(step, [g |-> <<>>, carry |-> 5], Indices(5))
  IN IF run.carry = 0 THEN h ELSE run.g

\* Poly1305::finish: what is left with a bit of its own, a second pass of carries, the
\* least remainder, and the pad; the tag has two bits less than the sum.
Finish(mac) ==
  LET left == mac.buffer \o <<1>> \o Zeros(MacBlock - Len(mac.buffer) - 1)
      h    == IF mac.buffer = <<>> THEN mac.h ELSE Absorb(mac.h, mac.r, left, 0)
      step(acc, i) == LET v == h[i] + acc.carry
                      IN [h |-> Append(acc.h, v % Radix), carry |-> v \div Radix]
      run  == FoldLeft(step, [h |-> <<h[1]>>, carry |-> 0], <<2, 3, 4, 5>>)
      low  == run.h[1] + 5 * run.carry
      t    == [run.h EXCEPT ![1] = low % Radix, ![2] = @ + low \div Radix]
  IN LimbsOf((ValueOf(Frozen(t), Radix) + mac.pad) % Top, Byte, MacBlock)

----------------------------------------------------------------------------
\* The tag of a text: filled up to whole blocks, and its length after the length of
\* the associated data, which the store has none of.
TagOf(key, nonce, ct) ==
  LET keyed  == Keyed(Stream(key, nonce, 0))
      texted == IF ct = <<>> THEN keyed ELSE Update(keyed, ct)
      filled == IF Len(ct) % MacBlock = 0 THEN texted
                ELSE Update(texted, Zeros(MacBlock - (Len(ct) % MacBlock)))
      lens   == Zeros(MacBlock \div 2) \o LimbsOf(Len(ct), Byte, MacBlock \div 2)
  IN Finish(Update(filled, lens))

\* aead_seal, and EncryptedFileStore::save's blob: the nonce, the text, the tag.
Sealed(key, nonce, pt) ==
  LET ct == XorStream(key, 1, nonce, pt)
  IN nonce \o ct \o TagOf(key, nonce, ct)

\* EncryptedFileStore::load and aead_open: None where the blob is too short or its tag
\* is not the text's.
Opened(key, blob) ==
  LET size  == Len(blob) - NonceLen - MacBlock
      nonce == SubSeq(blob, 1, NonceLen)
      ct    == SubSeq(blob, NonceLen + 1, NonceLen + size)
  IN IF size < 0 \/ TagOf(key, nonce, ct) # After(blob, NonceLen + size) THEN None
     ELSE XorStream(key, 1, nonce, ct)

----------------------------------------------------------------------------
\* The accumulator as the standard gives it: the value at r of the polynomial whose
\* coefficients are the blocks, each with a bit above it.
Modulus == Radix^5 - 5

Times(a, k) == ((((a * (k \div 512)) % Modulus) * 512) + (a * (k % 512))) % Modulus

Polynomial(mac, m) ==
  LET blocks == (Len(m) + MacBlock - 1) \div MacBlock
      value(k) == LET b == SubSeq(m, MacBlock * (k - 1) + 1, IF MacBlock * k < Len(m) THEN MacBlock * k ELSE Len(m))
                  IN ValueOf(b \o <<1>>, Byte)
      sum == FoldLeft(LAMBDA acc, k : Times((acc + value(k)) % Modulus, ValueOf(mac.r, Radix)),
                      0, Indices(blocks))
  IN LimbsOf((sum + mac.pad) % Top, Byte, MacBlock)

\* A tag is the polynomial's value wherever the message is cut.
TagsAgree(keys, messages) ==
  \A key \in keys, m \in messages : \A cut \in 0 .. Len(m) :
    Finish(Update(Update(Keyed(key), SubSeq(m, 1, cut)), After(m, cut)))
      = Polynomial(Keyed(key), m)

\* A blob opens to what was sealed, its text xor-ed with the stream's blocks from the
\* second on; a shorter or changed one, or another machine's, opens to nothing.
SealsOpen(keys, nonces, texts) ==
  \A key \in keys, nonce \in nonces, pt \in texts :
    LET blob == Sealed(key, nonce, pt)
    IN /\ Opened(key, blob) = pt
       /\ \A i \in 1 .. Len(pt) :
            blob[NonceLen + i] = pt[i] ^^ Stream(key, nonce, 1 + (i - 1) \div StreamBlock)
                                           [((i - 1) % StreamBlock) + 1]
       /\ \A k \in keys \ {key} : Opened(k, blob) = None
       /\ \A n \in 0 .. Len(blob) - 1 : Opened(key, SubSeq(blob, 1, n)) = None
       /\ \A n \in 1 .. Len(blob) :
            Opened(key, [blob EXCEPT ![n] = (@ + 1) % Byte]) = None
=============================================================================
