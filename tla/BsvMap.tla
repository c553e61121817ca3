------------------------------- MODULE BsvMap -------------------------------
(***************************************************************************)
(* The hash map of util/map.h: open addressing with linear probing, grown  *)
(* to twice its size when more than half of its slots are used.  A map is  *)
(* a record of the variables that MAP_INIT declares:                       *)
(*   size, used   as in the code                                           *)
(*   keys         for each slot << >> (NULL) or <<key>>                    *)
(*   values       for each slot << >> (zeroed) or <<value>>                *)
(*   index        where MAP_KEY and MAP_VALUE look                         *)
(*   remaining    the bytes left in the buffer that keys are copied to     *)
(* A key is the sequence of its bytes.  hash is XXH3_64bits(), a function  *)
(* from keys to numbers.                                                   *)
(***************************************************************************)
EXTENDS Integers, Sequences

CONSTANTS
    MAP_SIZE,           \* the initial size: 2^16 in the programs
    MAP_KEY_BUF_SIZE    \* the bytes of a key buffer: 512 KiB

ASSUME MapAssumption ==
    MAP_SIZE \in Nat \ {0} /\ MAP_KEY_BUF_SIZE \in Nat

Slots(size) == 0..size - 1
NoSlots(size) == [i \in Slots(size) |-> << >>]

MapAlloc ==
    [size |-> MAP_SIZE, used |-> 0, index |-> 0, remaining |-> MAP_KEY_BUF_SIZE,
     keys |-> NoSlots(MAP_SIZE), values |-> NoSlots(MAP_SIZE)]

\* The first slot, from the one the hash says on, that is free or has the key.
FindIndex(map, hash, key) ==
    LET At(d) == (hash[key] + d) % map.size
        Stops(d) == map.keys[At(d)] \in {<< >>, <<key>>}
    IN  At(CHOOSE d \in Slots(map.size) : Stops(d) /\ \A e \in 0..d - 1 : ~Stops(e))

Put(map, at, key, value) ==
    [map EXCEPT !.index = at, !.used = @ + 1, !.keys[at] = key, !.values[at] = value]

\* The slots in use are put into a map of twice the size, one by one.
Grow(map, hash) ==
    LET empty == [map EXCEPT !.size = 2 * @, !.used = 0,
                             !.keys = NoSlots(2 * map.size), !.values = NoSlots(2 * map.size)]
        moved[i \in 0..map.size] ==
            IF i = 0 THEN empty
            ELSE IF map.keys[i - 1] = << >> THEN moved[i - 1]
            ELSE Put(moved[i - 1], FindIndex(moved[i - 1], hash, map.keys[i - 1][1]),
                     map.keys[i - 1], map.values[i - 1])
    IN  moved[map.size]

\* A new key that does not fit what is left of the key buffer.
KeyBufferFull(map, hash, key) ==
    map.keys[FindIndex(map, hash, key)] = << >> /\ Len(key) > map.remaining

\* MAP_GROW_KEY_BUF: the buffer is replaced by a new one.
GrowKeyBuf(map, size) ==
    [map EXCEPT !.remaining = (IF size > @ THEN MAP_KEY_BUF_SIZE ELSE @) - size]

\* Mutant: the index is not looked up again in the grown map.
SetIndexStale(map, hash, key) ==
    LET at == FindIndex(map, hash, key)
        added == Put(GrowKeyBuf(map, Len(key)), at, <<key>>, << >>)
    IN  IF map.keys[at] # << >> THEN [map EXCEPT !.index = at]
        ELSE IF 2 * added.used > added.size THEN Grow(added, hash)
        ELSE added

\* MAP_SET_INDEX: index is the slot of the key, which is added if need be.
SetIndex(map, hash, key) ==
    LET at == FindIndex(map, hash, key)
        added == Put(GrowKeyBuf(map, Len(key)), at, <<key>>, << >>)
        grown == Grow(added, hash)
    IN  IF map.keys[at] # << >> THEN [map EXCEPT !.index = at]
        ELSE IF 2 * added.used > added.size
             THEN [grown EXCEPT !.index = FindIndex(grown, hash, key)]
        ELSE added

=============================================================================
