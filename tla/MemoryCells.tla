----------------------------- MODULE MemoryCells -----------------------------
(***************************************************************************)
(* addoffset, peek and poke (lua_extension.cpp): a script works on the     *)
(* elements of a block of memory with integers of lua_Integer.             *)
(* The variants for floating point and for 16 bytes are left out.          *)
(***************************************************************************)
EXTENDS Integers

CONSTANTS
    ByteValues,    \* number of values of a byte, 256 in the code
    LongWidth,     \* bytes of a lua_Integer, 8 in the code
    Widths,        \* numbers of bytes the functions accept, 1 for 0 as well
    BlockSize,     \* bytes of the block of memory
    PokedValues    \* integers a script pokes

ASSUME MemoryAssumption ==
    /\ ByteValues \in Nat \ {0, 1} /\ LongWidth \in Widths /\ BlockSize \in Nat
    /\ Widths \subseteq 1 .. LongWidth
    /\ PokedValues \subseteq Int

VARIABLES
    block,     \* the bytes of the block
    expected   \* history: elements and the values poked to them last

memoryVars == <<block, expected>>

Power[n \in Nat] == IF n = 0 THEN 1 ELSE ByteValues * Power[n - 1]
Elements == {e \in Widths \X (0 .. BlockSize) : (e[2] + 1) * e[1] <= BlockSize}
Values(w) == 0 .. Power[w] - 1

\* static_cast<lua_Integer>, by two's complement.
Wrap(v) ==
    LET half == Power[LongWidth] \div 2 IN ((v + half) % (2 * half)) - half
Overflows(v) == Wrap(v) # v
\* The maximum of the unsigned type as a lua_Integer: -1 for the widest one.
MaxInteger(w) == Wrap(Power[w] - 1)

AddOffsetInBytes(address, offset, bytes) == address + offset   \* mutant
AddOffset(address, offset, bytes) == address + offset * bytes

\* What Poke<T> may store for a value: values out of range are shifted by the
\* maximum of the type; a signed overflow is undefined.
Stored(w, v) ==
    LET shifted == IF v < 0 THEN v + MaxInteger(w)
                   ELSE IF v > MaxInteger(w) THEN v - MaxInteger(w) ELSE v
    IN  IF Overflows(shifted) THEN Values(w) ELSE {shifted % Power[w]}

Bytes(address, w) == address .. address + w - 1
\* The bytes of a number, the lowest one first, as they are in memory.
Byte(v, i) == (v \div Power[i]) % ByteValues
PeekFrom(address, w) ==
    CHOOSE v \in Values(w) : \A i \in 0 .. w - 1 : block[address + i] = Byte(v, i)
Peek(w, offset) == Wrap(PeekFrom(AddOffset(0, offset, w), w))

Poke(w, offset, v) ==
    LET address == AddOffset(0, offset, w) IN
    /\ Bytes(address, w) \subseteq DOMAIN block
    /\ \E stored \in Stored(w, v) :
         block' = [b \in DOMAIN block |->
                     IF b \in Bytes(address, w) THEN Byte(stored, b - address)
                                                 ELSE block[b]]
    \* An element is a part of the block of its own, whatever its width; what
    \* is poked over it is no longer expected.
    /\ LET apart(e) == Bytes(e[1][1] * e[1][2], e[1][1]) \cap Bytes(w * offset, w) = {}
           fits == IF w < LongWidth THEN v \in Values(w) ELSE ~Overflows(v)
       IN  expected' = {e \in expected : apart(e)}
                         \cup IF fits THEN {<<<<w, offset>>, v>>} ELSE {}

MemoryInit == block = [b \in 0 .. BlockSize - 1 |-> 0] /\ expected = {}
MemoryNext == \E e \in Elements, v \in PokedValues : Poke(e[1], e[2], v)
MemorySpec == MemoryInit /\ [][MemoryNext]_memoryVars

\* An integer that fits into its element is read back as long as no element
\* that covers one of its bytes is poked, whatever is poked elsewhere, out of
\* range as well, unless the element is as wide as a lua_Integer, for which
\* poke.md:8 promises it in vain (lua_extension.cpp:410-429, 566-849).
ReadsBack ==
    \A e \in expected : e[1][1] < LongWidth => Peek(e[1][1], e[1][2]) = e[2]

==============================================================================
