----------------------------- MODULE HashContext -----------------------------
(***************************************************************************)
(* The context md5, sha1 and the sha2 family share: it cuts a message that *)
(* comes in pieces of any size into blocks for the compression function,   *)
(* counts them in a word of limited width, and pads the last ones.  The    *)
(* compression function is not interpreted: its input is what is recorded. *)
(*                                                                         *)
(* A byte is a pair: <<"msg", i>> is the i-th byte the program hands over, *)
(* over all messages, so that leftovers of an earlier one are seen.        *)
(***************************************************************************)
EXTENDS Naturals, Sequences

CONSTANTS
  BlockSize, \* T::block_size
  CountSize, \* sizeof(counter_type)
  CountMod,  \* 2 ^ counterbits
  MaxPiece,  \* bound: the longest piece passed to one update
  MaxBytes   \* bound: bytes handed over in all

HashAssumption ==
  /\ BlockSize \in Nat \ {0} /\ CountSize \in 1..(BlockSize - 1)
  /\ CountMod \in Nat \ {0}
  /\ MaxPiece \in Nat /\ MaxBytes \in Nat

VARIABLES
  hashed,  \* what update_blocks has been given since the last reset
  buffer,  \* the block under construction, what is stale in it included
  offset,  \* buffer_offset
  counter, \* bytes of whole blocks of the message
  next,    \* number of the next byte the program hands over
  msg,     \* history: the message since the last reset
  final    \* history: do_final has run since the last reset

hashVars == <<hashed, buffer, offset, counter, next, msg, final>>

Junk == <<"junk", 0>>
Mark == <<"pad", 128>>
Zeros(n) == [i \in 1..n |-> <<"pad", 0>>]
Length(bits) == [i \in 1..CountSize |-> <<"len", bits % CountMod>>]

HashInit ==
  /\ hashed = <<>>
  /\ buffer = [i \in 1..BlockSize |-> Junk]
  /\ offset = 0
  /\ counter = 0
  /\ next = 1
  /\ msg = <<>>
  /\ final = FALSE

Fresh(n) == [i \in 1..n |-> <<"msg", next + i - 1>>]

\* s copied into block b behind its first pos bytes.
Over(b, pos, s) == [k \in DOMAIN b |-> IF k - pos \in DOMAIN s THEN s[k - pos] ELSE b[k]]

\* The piece does not fill the block under construction.
Keep(s) ==
  /\ Len(s) < BlockSize - offset
  /\ buffer' = Over(buffer, offset, s)
  /\ offset' = offset + Len(s)
  /\ UNCHANGED <<hashed, counter>>

\* update_cold_impl: complete the block under construction if one is begun,
\* hash the whole blocks of the piece in place, keep what is left.
Absorb(s) ==
  LET head == IF offset = 0 THEN 0 ELSE BlockSize - offset
      full == Over(buffer, offset, SubSeq(s, 1, head))
      rest == (Len(s) - head) % BlockSize
      whole == SubSeq(s, head + 1, Len(s) - rest)
  IN  /\ Len(s) >= BlockSize - offset
      /\ hashed' = hashed \o (IF head = 0 THEN <<>> ELSE full) \o whole
      /\ counter' = (counter + (Len(hashed') - Len(hashed))) % CountMod
      /\ buffer' = Over(full, 0, SubSeq(s, Len(s) - rest + 1, Len(s)))
      /\ offset' = rest

Update(n) ==
  /\ ~final
  /\ next + n <= MaxBytes + 1
  /\ Keep(Fresh(n)) \/ Absorb(Fresh(n))
  /\ next' = next + n
  /\ msg' = msg \o Fresh(n)
  /\ UNCHANGED final

\* append_sentinal: the length in bits behind the padding, and the last block.
Sentinel(b) == Over(b, BlockSize - CountSize, Length((counter + offset) * 8))

\* Mutant: the mark and the length are put into one block when only the
\* mark fits.
PaddingTight ==
  LET room == BlockSize - CountSize
      marked == Over(buffer, offset, <<Mark>>)
  IN  IF offset <= room
      THEN Sentinel(Over(marked, offset + 1, Zeros(room - offset)))
      ELSE LET first == Over(marked, offset + 1, Zeros(BlockSize - offset - 1))
           IN  first \o Sentinel(Over(first, 0, Zeros(room)))

\* The one or two blocks do_final ends the message with.
Padding ==
  LET room == BlockSize - CountSize
      marked == Over(buffer, offset, <<Mark>>)
  IN  IF offset + 1 <= room
      THEN Sentinel(Over(marked, offset + 1, Zeros(room - (offset + 1))))
      ELSE LET first == Over(marked, offset + 1, Zeros(BlockSize - (offset + 1)))
           IN  first \o Sentinel(Over(first, 0, Zeros(room)))

DoFinal ==
  /\ ~final /\ final' = TRUE
  /\ hashed' = hashed \o Padding
  /\ buffer' = SubSeq(Padding, Len(Padding) - BlockSize + 1, Len(Padding))
  /\ UNCHANGED <<offset, counter, next, msg>>

\* reset, at any time; the old block stays in the buffer.
Reset ==
  /\ hashed' = <<>> /\ counter' = 0 /\ offset' = 0
  /\ msg' = <<>> /\ final' = FALSE
  /\ UNCHANGED <<buffer, next>>

HashNext == (\E n \in 0..MaxPiece : Update(n)) \/ DoFinal \/ Reset

HashSpec == HashInit /\ [][HashNext]_hashVars

-----------------------------------------------------------------------------
(***************************************************************************)
(* Correctness.                                                            *)
(***************************************************************************)

\* There is always room for the mark: the block under construction is never
\* left full.
HashTypeOK ==
  /\ Len(hashed) % BlockSize = 0
  /\ Len(buffer) = BlockSize
  /\ offset \in 0..(BlockSize - 1)
  /\ counter \in 0..(CountMod - 1)
  /\ next \in Nat
  /\ final \in BOOLEAN

\* However the message is cut, what was hashed and what is kept are its
\* bytes in order, and the counter is the length of what was hashed, up to
\* the width of the word.
Absorbed ==
  ~final => /\ hashed \o SubSeq(buffer, 1, offset) = msg
            /\ counter = Len(hashed) % CountMod

\* The padding of the standards: a mark, as few zeros as make the length end
\* a block, the length in bits modulo the width of the word.
Gap(n) == CHOOSE z \in 0..(BlockSize - 1) : (n + 1 + z + CountSize) % BlockSize = 0
Padded(m) == m \o <<Mark>> \o Zeros(Gap(Len(m))) \o Length(8 * Len(m))

\* The digest is the digest of the padded message: nothing stale, of this
\* message or an earlier one, is left between the mark and the length.
DigestIsPadded == final => hashed = Padded(msg)

\* What was hashed and what is kept are the message, however it is cut, and
\* the digest is that of the padded message, the context's past apart.
DigestOfMessage == HashTypeOK /\ Absorbed /\ DigestIsPadded
=============================================================================
