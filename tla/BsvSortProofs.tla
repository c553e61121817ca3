--------------------------- MODULE BsvSortProofs ----------------------------
(***************************************************************************)
(* IInv is an inductive invariant of BsvSort for every buffer size, every  *)
(* stream and every order of its rows: the pointers that bsort keeps stay  *)
(* valid, and it writes every row once, in order.                          *)
(***************************************************************************)
EXTENDS BsvSort, BsvRowProofs, FiniteSetTheorems

\* What the assumption says of the input.
LEMMA InputFacts ==
    ASSUME input \in Inputs
    PROVE  /\ WholeFile(input.rows, input.file) /\ input.rows \in Seq(Row) /\ Len(input.rows) \in Nat
           /\ input.file \in Seq(Seq(Cell)) /\ Len(input.file) \in Nat
           /\ \A k \in 1..Len(input.rows) : input.rows[k].key \in Int
           /\ input.reversed \in BOOLEAN
BY SortInputsAssumption DEF WholeFile, HoldsRows

\* Nothing is loaded, nothing is written.
LEMMA Starts == Init => IInv
<1>. SUFFICES ASSUME Init PROVE IInv
  OBVIOUS
<1>. DEFINE rows == input.rows
            file == input.file
<1>1. WholeFile(rows, file) /\ rows \in Seq(Row) /\ Len(rows) \in Nat /\ file \in Seq(Seq(Cell)) /\ Len(file) \in Nat
  BY InputFacts DEF Init
<1>2. /\ rbuf = RbufInit /\ memory = << >> /\ array = << >> /\ wbuf = WbufInit /\ written = 0
      /\ pc = "load" /\ input \in Inputs
  BY DEF Init
<1>3. WholeOutput(rows, wbuf) /\ wbuf \in WriteBuf
  BY <1>2 DEF WbufInit, WriteBuf, WholeOutput, WholeRows
<1>4. rbuf \in ReadBuf /\ rbuf.next = 0 /\ ~rbuf.dead /\ rbuf.offset = rbuf.chunk_size
  BY <1>2, FormatAssumption DEF RbufInit, ReadBuf
<1>5. Typed
  BY <1>1, <1>2, <1>3, <1>4 DEF Typed
<1>6. MemoryInv /\ ValidInv /\ OrderInv
  BY <1>2, <1>4 DEF MemoryInv, ValidInv, OrderInv
<1>7. Upcoming(rows, file, rbuf, 0 + 1)
  <2>1. 1 = IF 0 = Len(file) THEN Len(rows) + 1 ELSE FirstRow(file[0 + 1])
    <3>1. CASE file = << >>
      <4>1. Len(file) = 0 /\ Len(rows) = 0
        BY <1>1, <3>1, WholeFileParts
      <4>. QED
        BY <4>1
    <3>2. CASE file # << >>
      <4>1. Len(file) # 0 /\ FirstRow(file[1]) = 1
        BY <1>1, <3>2, WholeFileParts
      <4>. QED
        BY <4>1
    <3>. QED
      BY <3>1, <3>2
  <2>. HIDE DEF rows, file
  <2>. QED
    BY <1>4, <2>1 DEF Upcoming, UpcomingTo
<1>8. LoadInv
  BY <1>1, <1>2, <1>7 DEF LoadInv
<1>9. WrittenInv
  <2>4. RowsOut(wbuf) = << >>
    BY <1>2, NothingOut
  <2>5. [k \in 1..written |-> Shown(k)] = << >>
    BY <1>2
  <2>. QED
    BY <1>2, <2>4, <2>5 DEF WrittenInv
<1>. QED
  BY <1>5, <1>6, <1>8, <1>9 DEF IInv

-----------------------------------------------------------------------------
\* While rows are loaded the array gets the row that is upcoming, and what the
\* rows before it show does not change.
LEMMA Loads ==
    ASSUME IInv, Load
    PROVE  IInv'
<1>. DEFINE rows == input.rows
            file == input.file
            l == LoadNext(rbuf, rows, file)
            n == Len(array) + 1
            raw == RowToRaw(l.rbuf.next, l.rbuf, rows)
<1>1. /\ WholeFile(rows, file) /\ rows \in Seq(Row) /\ Len(rows) \in Nat
      /\ file \in Seq(Seq(Cell)) /\ Len(file) \in Nat
  BY InputFacts DEF IInv, Typed
<1>2. /\ rbuf \in ReadBuf /\ ~rbuf.dead /\ rbuf.next \in 0..Len(file) /\ array \in Seq(RawRows)
      /\ rbuf.next # 0 => rbuf.buffer = file[rbuf.next]
      /\ memory \in Seq(Seq(Cell)) /\ Len(memory) = rbuf.next
      /\ \A c \in 1..Len(memory) : memory[c] = file[c]
  BY DEF IInv, Typed, MemoryInv
<1>3. /\ pc = "load" /\ Len(array) <= Len(rows) /\ Upcoming(rows, file, rbuf, n) /\ written = 0
      /\ \A k \in 1..Len(array) : Shown(k) = k
  BY DEF Load, IInv, LoadInv
<1>4. /\ l.outcome # "stop" /\ rbuf' = l.rbuf /\ memory' = MemoryAfter(l.rbuf)
      /\ array' = IF l.outcome = "row" THEN Append(array, raw) ELSE array
      /\ pc' = IF l.outcome = "row" THEN pc ELSE "fatal"
      /\ input' = input /\ wbuf' = wbuf /\ written' = written
  BY DEF Load
<1>. HIDE DEF l, raw, rows, file
<1>5. Len(array) \in Nat /\ n \in Nat
  BY <1>2
<1>6. n \in 1..Len(rows)
  <2>1. n # Len(rows) + 1
    <3>. SUFFICES ASSUME n = Len(rows) + 1 PROVE FALSE
      OBVIOUS
    <3>1. Upcoming(rows, file, rbuf, Len(rows) + 1)
      BY <1>3
    <3>. HIDE DEF n
    <3>2. l = Loaded(ReadEof(rbuf), 0, "stop")
      BY <1>1, <1>2, <3>1, LoadStops DEF l
    <3>. QED
      BY <1>4, <3>2 DEF Loaded
  <2>. QED
    BY <1>1, <1>3, <1>5, <2>1
<1>. HIDE DEF n
<1>7. /\ l.outcome = "row" /\ l.rbuf \in ReadBuf /\ ~l.rbuf.dead /\ l.rbuf.next \in 0..Len(file)
      /\ Upcoming(rows, file, l.rbuf, n + 1)
  BY <1>1, <1>2, <1>3, <1>6, LoadUpcoming DEF l
<1>8. Points(rows, file, l.rbuf, n) /\ l.rbuf.next \in {rbuf.next, rbuf.next + 1}
  BY <1>1, <1>2, <1>3, <1>6, LoadPoints DEF l
<1>. DEFINE rb == l.rbuf
<1>9. PICK p \in Nat : RowAt(rows, rb.buffer, p, n) /\ rb.at = p + HeaderSize(rows[n])
  BY <1>8 DEF Points
<1>10. /\ rb \in ReadBuf /\ rb.next \in 1..Len(file) /\ rb.buffer = file[rb.next] /\ rb.next \in Nat
       /\ rb.buffer \in Seq(Cell) /\ rb.next \in {rbuf.next, rbuf.next + 1}
  BY <1>1, <1>7, <1>8 DEF Points, ReadBuf
<1>11. /\ raw.meta = rb.next /\ ShowsRow(raw, rb.buffer, rows) /\ RawRow(raw, rb.buffer) = n
       /\ raw \in RawRows
  <2>. HIDE DEF rb
  <2>1. raw = RowToRaw(rb.next, rb, rows)
    BY DEF raw, rb
  <2>2. RowToRaw(rb.next, rb, rows) \in RawRows
    BY <1>1, <1>5, <1>9, <1>10, RowToRawType
  <2>. QED
    BY <1>1, <1>5, <1>9, <1>10, <2>1, <2>2, RawShowsRow
<1>. HIDE DEF rb
<1>12. /\ rbuf' = rb /\ memory' = MemoryAfter(rb) /\ array' = Append(array, raw) /\ pc' = "load"
  BY <1>3, <1>4, <1>7 DEF rb
<1>13. /\ memory' \in Seq(Seq(Cell)) /\ Len(memory') = rb.next
       /\ \A c \in 1..Len(memory') : memory'[c] = file[c]
       /\ \A c \in 1..Len(memory) : memory'[c] = memory[c] /\ c \in 1..Len(memory')
  <2>1. CASE rb.next > Len(memory)
    <3>1. memory' = Append(memory, rb.buffer) /\ rb.next = Len(memory) + 1
      BY <1>2, <1>10, <1>12, <2>1 DEF MemoryAfter
    <3>2. /\ memory' \in Seq(Seq(Cell)) /\ Len(memory') = Len(memory) + 1
          /\ \A c \in 1..Len(memory) : memory'[c] = memory[c]
          /\ memory'[Len(memory) + 1] = rb.buffer
      BY <1>2, <1>10, <3>1
    <3>3. \A c \in 1..Len(memory') : c \in 1..Len(memory) \/ c = Len(memory) + 1
      BY <1>2, <3>2
    <3>. QED
      BY <1>2, <1>10, <3>1, <3>2, <3>3
  <2>2. CASE ~(rb.next > Len(memory))
    <3>1. memory' = memory /\ rb.next = rbuf.next
      BY <1>2, <1>10, <1>12, <2>2 DEF MemoryAfter
    <3>. QED
      BY <1>2, <3>1
  <2>. QED
    BY <2>1, <2>2
<1>14. /\ array' \in Seq(RawRows) /\ Len(array') = n /\ n = Len(array) + 1
       /\ \A k \in 1..Len(array) : array'[k] = array[k]
       /\ array'[n] = raw
  BY <1>2, <1>11, <1>12 DEF n
<1>15. \A k \in 1..n : k \in 1..Len(array) \/ k = n
  BY <1>5, <1>14
<1>16. \A k \in 1..Len(array) : /\ array[k].meta \in 1..Len(memory)
                                /\ ShowsRow(array[k], memory[array[k].meta], rows)
  BY DEF IInv, ValidInv, rows
<1>17. memory'[raw.meta] = rb.buffer /\ raw.meta \in 1..Len(memory')
  BY <1>10, <1>11, <1>13
<1>18. ASSUME NEW k \in 1..n
       PROVE  /\ array'[k].meta \in 1..Len(memory') /\ Shown(k)' = k
              /\ ShowsRow(array'[k], memory'[array'[k].meta], rows)
  <2>1. CASE k \in 1..Len(array)
    <3>1. array'[k] = array[k] /\ memory'[array[k].meta] = memory[array[k].meta]
      BY <1>13, <1>14, <1>16, <2>1
    <3>2. Shown(k)' = k
      BY <1>3, <2>1, <3>1 DEF Shown
    <3>. QED
      BY <1>13, <1>16, <2>1, <3>1, <3>2
  <2>2. CASE k = n
    <3>1. array'[k] = raw /\ memory'[array'[k].meta] = rb.buffer
      BY <1>14, <1>17, <2>2
    <3>2. Shown(k)' = k
      BY <1>11, <2>2, <3>1 DEF Shown
    <3>. QED
      BY <1>11, <1>17, <3>1, <3>2
  <2>. QED
    BY <1>15, <2>1, <2>2
<1>19. rows' = rows /\ file' = file /\ rbuf' = rb /\ input' = input
  BY <1>4, <1>12 DEF rows, file
<1>20. Typed'
  <2>1. WholeOutput(rows, wbuf)
    BY DEF IInv, Typed, rows
  <2>2. WholeOutput(rows, wbuf')
    BY <1>4, <2>1
  <2>3. input' \in Inputs /\ written' \in 0..Len(array') /\ Len(input'.file) = Len(file)
    BY <1>3, <1>4, <1>5, <1>6, <1>14 DEF IInv, Typed, file
  <2>. QED
    BY <1>7, <1>12, <1>14, <1>19, <2>2, <2>3 DEF Typed, rows, file, rb
<1>21. MemoryInv'
  BY <1>10, <1>12, <1>13, <1>19 DEF MemoryInv, file
<1>22. ValidInv'
  BY <1>14, <1>18, <1>19 DEF ValidInv, rows
<1>23. LoadInv'
  <2>1. n <= Len(rows) /\ written' = 0 /\ Upcoming(rows, file, rb, n + 1)
    BY <1>3, <1>4, <1>6, <1>7 DEF rb
  <2>2. \A k \in 1..Len(array') : Shown(k)' = k
    BY <1>14, <1>18
  <2>. QED
    BY <1>14, <1>19, <2>1, <2>2 DEF LoadInv, rows, file
<1>24. OrderInv'
  BY <1>12 DEF OrderInv
<1>25. WrittenInv'
  <2>1. written = 0 /\ written' = 0 /\ wbuf' = wbuf /\ pc' = "load"
    BY <1>3, <1>4, <1>12
  <2>2. RowsOut(wbuf) = [k \in 1..0 |-> Shown(k)]
    BY <2>1 DEF IInv, WrittenInv
  <2>3. [k \in 1..0 |-> Shown(k)] = << >> /\ [k \in 1..0 |-> Shown(k)'] = << >>
    OBVIOUS
  <2>4. RowsOut(wbuf') = [k \in 1..written' |-> Shown(k)']
    BY <2>1, <2>2, <2>3
  <2>. QED
    BY <2>1, <2>4 DEF WrittenInv
<1>. QED
  BY <1>20, <1>21, <1>22, <1>23, <1>24, <1>25 DEF IInv

-----------------------------------------------------------------------------
\* A permutation reaches every place.
LEMMA PermutationReaches ==
    ASSUME NEW n \in Nat, NEW p \in Permutation(n)
    PROVE  p \in [1..n -> 1..n] /\ \A i \in 1..n : \E k \in 1..n : p[k] = i
<1>1. p \in [1..n -> 1..n] /\ \A i, j \in 1..n : i # j => p[i] # p[j]
  BY DEF Permutation
<1>. DEFINE S == 1..n
<1>2. p \in Injection(S, S)
  BY <1>1 DEF Injection, IsInjective
<1>3. IsFiniteSet(S)
  BY FS_Interval
<1>. HIDE DEF S
<1>4. p \in Surjection(S, S)
  BY <1>2, <1>3, FS_Injection
<1>5. \A i \in S : \E k \in S : p[k] = i
  BY <1>4 DEF Surjection
<1>. QED
  BY <1>1, <1>5 DEF S

\* At the end of the input all rows are in the array, and sorting it only
\* changes their places.
LEMMA Sorts ==
    ASSUME IInv, Sort
    PROVE  IInv'
<1>. DEFINE rows == input.rows
            file == input.file
            l == LoadNext(rbuf, rows, file)
            n == Len(array)
<1>1. /\ WholeFile(rows, file) /\ rows \in Seq(Row) /\ Len(rows) \in Nat
      /\ file \in Seq(Seq(Cell)) /\ Len(file) \in Nat
  BY InputFacts DEF IInv, Typed
<1>2. /\ rbuf \in ReadBuf /\ ~rbuf.dead /\ rbuf.next \in 0..Len(file) /\ array \in Seq(RawRows)
      /\ rbuf.next # 0 => rbuf.buffer = file[rbuf.next]
      /\ memory \in Seq(Seq(Cell)) /\ Len(memory) = rbuf.next
      /\ \A c \in 1..Len(memory) : memory[c] = file[c]
  BY DEF IInv, Typed, MemoryInv
<1>3. /\ pc = "load" /\ n <= Len(rows) /\ Upcoming(rows, file, rbuf, n + 1) /\ written = 0
      /\ \A k \in 1..n : Shown(k) = k
  BY DEF Sort, IInv, LoadInv
<1>4. /\ l.outcome = "stop" /\ rbuf' = l.rbuf /\ pc' = "write"
      /\ input' = input /\ memory' = memory /\ wbuf' = wbuf /\ written' = written
  BY DEF Sort
<1>5. PICK p \in Permutation(n) :
        /\ array' = [k \in 1..n |-> array[p[k]]]
        /\ \A i, j \in 1..n : i < j => RankAt(array'[i]) <= RankAt(array'[j])
  BY DEF Sort
<1>. HIDE DEF l, rows, file
<1>6. n \in Nat
  BY <1>2
<1>7. n = Len(rows)
  <2>. SUFFICES ASSUME n # Len(rows) PROVE FALSE
    OBVIOUS
  <2>. DEFINE m == n + 1
  <2>1. m \in 1..Len(rows) /\ Upcoming(rows, file, rbuf, m)
    BY <1>1, <1>3, <1>6
  <2>. HIDE DEF m, n
  <2>2. l.outcome = "row"
    BY <1>1, <1>2, <2>1, LoadUpcoming DEF l
  <2>. QED
    BY <1>4, <2>2
<1>8. rbuf' = ReadEof(rbuf)
  <2>1. Upcoming(rows, file, rbuf, Len(rows) + 1)
    BY <1>3, <1>7
  <2>. HIDE DEF n
  <2>2. l = Loaded(ReadEof(rbuf), 0, "stop")
    BY <1>1, <1>2, <2>1, LoadStops DEF l
  <2>. QED
    BY <1>4, <2>2 DEF Loaded
<1>9. rbuf' \in ReadBuf /\ rbuf'.next = rbuf.next /\ rbuf'.dead = rbuf.dead /\ rbuf'.buffer = rbuf.buffer
  BY <1>2, <1>8, ReadEofType
<1>10. p \in [1..n -> 1..n] /\ \A i \in 1..n : \E k \in 1..n : p[k] = i
  BY <1>6, PermutationReaches
<1>11. \A i, j \in 1..n : i # j => p[i] # p[j]
  BY DEF Permutation
<1>12. array' \in Seq(RawRows) /\ Len(array') = n /\ \A k \in 1..n : array'[k] = array[p[k]]
  <2>1. ASSUME NEW k \in 1..n PROVE array[p[k]] \in RawRows
    <3>. DEFINE m == p[k]
    <3>1. m \in 1..Len(array)
      BY <1>10
    <3>. HIDE DEF m
    <3>2. array[m] \in RawRows
      BY <1>2, <3>1
    <3>. QED
      BY <3>2 DEF m
  <2>. HIDE DEF n
  <2>2. array' \in [1..n -> RawRows]
    BY <1>5, <2>1
  <2>3. array' \in Seq(RawRows) /\ Len(array') = n
    BY <1>6, <2>2
  <2>. QED
    BY <1>5, <2>3
<1>13. \A k \in 1..n : Shown(k)' = p[k]
  <2>. SUFFICES ASSUME NEW k \in 1..n PROVE Shown(k)' = p[k]
    OBVIOUS
  <2>1. p[k] \in 1..n
    BY <1>10
  <2>2. Shown(k)' = Shown(p[k])
    BY <1>4, <1>12 DEF Shown
  <2>. QED
    BY <1>3, <2>1, <2>2
<1>. HIDE DEF n
<1>14. rows' = rows /\ file' = file /\ input' = input
  BY <1>4 DEF rows, file
<1>15. Typed'
  <2>1. WholeOutput(rows, wbuf) /\ input \in Inputs
    BY DEF IInv, Typed, rows
  <2>2. WholeOutput(rows, wbuf')
    BY <1>4, <2>1
  <2>3. input' \in Inputs /\ written' \in 0..Len(array') /\ rbuf'.next \in 0..Len(file)
    BY <1>2, <1>3, <1>4, <1>6, <1>9, <1>12, <2>1
  <2>. QED
    BY <1>2, <1>4, <1>9, <1>12, <1>14, <2>2, <2>3 DEF Typed, rows, file
<1>16. MemoryInv'
  BY <1>2, <1>4, <1>9, <1>14 DEF MemoryInv, file
<1>17. ValidInv'
  <2>1. \A k \in 1..n : /\ array[k].meta \in 1..Len(memory)
                        /\ ShowsRow(array[k], memory[array[k].meta], rows)
    BY DEF IInv, ValidInv, rows, n
  <2>2. \A k \in 1..n : p[k] \in 1..n
    BY <1>10
  <2>3. \A k \in 1..n : /\ array'[k].meta \in 1..Len(memory')
                        /\ ShowsRow(array'[k], memory'[array'[k].meta], rows)
    BY <1>4, <1>12, <2>1, <2>2
  <2>. QED
    BY <1>12, <1>14, <2>3 DEF ValidInv, rows
<1>18. LoadInv'
  BY <1>4 DEF LoadInv
<1>19. OrderInv'
  <2>1. Len(array') = Len(rows) /\ Len(array') = n
    BY <1>7, <1>12
  <2>2. \A i \in 1..n : \E k \in 1..n : Shown(k)' = i
    BY <1>10, <1>13
  <2>3. \A k, m \in 1..n : k # m => Shown(k)' # Shown(m)'
    BY <1>11, <1>13
  <2>4. \A i, j \in 1..n : i < j => RankAt(array[i])' <= RankAt(array[j])'
    BY <1>4, <1>5 DEF RankAt
  <2>. QED
    BY <1>14, <2>1, <2>2, <2>3, <2>4 DEF OrderInv, rows
<1>20. WrittenInv'
  <2>1. written = 0 /\ written' = 0 /\ wbuf' = wbuf /\ pc' = "write"
    BY <1>3, <1>4
  <2>2. RowsOut(wbuf) = [k \in 1..0 |-> Shown(k)]
    BY <2>1 DEF IInv, WrittenInv
  <2>3. [k \in 1..0 |-> Shown(k)] = << >> /\ [k \in 1..0 |-> Shown(k)'] = << >>
    OBVIOUS
  <2>4. RowsOut(wbuf') = [k \in 1..written' |-> Shown(k)']
    BY <2>1, <2>2, <2>3
  <2>. QED
    BY <2>1, <2>4 DEF WrittenInv
<1>. QED
  BY <1>15, <1>16, <1>17, <1>18, <1>19, <1>20 DEF IInv

\* The next raw row of the array is dumped as the row that it shows.
LEMMA WritesRow ==
    ASSUME IInv, WriteRow
    PROVE  IInv'
<1>. DEFINE rows == input.rows
            k == written + 1
            raw == array[k]
            buffer == memory[raw.meta]
<1>1. rows \in Seq(Row) /\ WholeOutput(rows, wbuf) /\ written \in Nat /\ k \in 1..Len(array)
  <2>1. written \in 0..Len(array) /\ written < Len(array) /\ array \in Seq(RawRows)
    BY DEF IInv, Typed, WriteRow
  <2>2. rows \in Seq(Row) /\ WholeOutput(rows, wbuf)
    BY InputFacts DEF IInv, Typed
  <2>. QED
    BY <2>1, <2>2
<1>2. /\ pc = "write" /\ wbuf' = DumpRaw(wbuf, raw, buffer) /\ written' = k
      /\ UNCHANGED <<input, rbuf, memory, array, pc>>
  BY DEF WriteRow
<1>3. ShowsRow(raw, buffer, rows) /\ Shown(k) = RawRow(raw, buffer)
  BY <1>1 DEF IInv, ValidInv, Shown
<1>4. RowsOut(wbuf) = [j \in 1..written |-> Shown(j)]
  BY DEF IInv, WrittenInv
<1>. DEFINE i == RawRow(raw, buffer)
<1>. HIDE DEF raw, buffer, i, rows
<1>5. WholeOutput(rows, wbuf') /\ RowsOut(wbuf') = Append(RowsOut(wbuf), i)
  <2>. DEFINE v == DumpRaw(wbuf, raw, buffer)
  <2>1. WholeOutput(rows, v) /\ RowsOut(v) = Append(RowsOut(wbuf), RawRow(raw, buffer))
    BY <1>1, <1>3, DumpRawResult
  <2>. HIDE DEF v
  <2>2. wbuf' = v
    BY <1>2 DEF v
  <2>. QED
    BY <2>1, <2>2 DEF i
<1>6. RowsOut(wbuf') = [j \in 1..k |-> Shown(j)]
  <2>. DEFINE s == [j \in 1..written |-> Shown(j)]
              t == [j \in 1..k |-> Shown(j)]
  <2>1. s \in Seq({Shown(j) : j \in 1..k}) /\ Len(s) = written /\ Shown(k) = i
    BY <1>1, <1>3 DEF i
  <2>2. Append(s, i) = t
    BY <1>1, <2>1
  <2>. QED
    BY <1>4, <1>5, <2>2
<1>7. \A j : Shown(j)' = Shown(j)
  BY <1>2 DEF Shown
<1>. HIDE DEF k
<1>8. WrittenInv'
  <2>1. [j \in 1..k |-> Shown(j)'] = [j \in 1..k |-> Shown(j)]
    BY <1>7
  <2>. QED
    BY <1>2, <1>6, <2>1 DEF WrittenInv
<1>9. Typed'
  <2>1. k \in 0..Len(array)
    BY <1>1
  <2>. QED
    BY <1>2, <1>5, <2>1 DEF IInv, Typed, rows
<1>10. MemoryInv' /\ ValidInv' /\ LoadInv'
  BY <1>2 DEF IInv, MemoryInv, ValidInv, LoadInv
<1>11. OrderInv'
  <2>1. OrderInv
    BY DEF IInv
  <2>2. \A r : RankAt(r)' = RankAt(r)
    BY <1>2 DEF RankAt
  <2>3. UNCHANGED <<array, input, pc>>
    BY <1>2
  <2>. QED
    BY <1>2, <1>7, <2>1, <2>2, <2>3 DEF OrderInv
<1>. QED
  BY <1>8, <1>9, <1>10, <1>11 DEF IInv

\* The last chunk is written.
LEMMA Finishes ==
    ASSUME IInv, Finish
    PROVE  IInv'
<1>1. /\ pc = "write" /\ written = Len(array) /\ wbuf' = WriteFlush(wbuf) /\ pc' = "done"
      /\ UNCHANGED <<input, rbuf, memory, array, written>>
  BY DEF Finish
<1>2. WholeOutput(input.rows, wbuf) /\ wbuf \in WriteBuf
  BY DEF IInv, Typed, WholeOutput
<1>3. /\ WholeOutput(input.rows, wbuf') /\ wbuf'.buffer = << >>
      /\ RowsOut(wbuf') = RowsOut(wbuf)
  BY <1>1, <1>2, FlushWholeRows, FlushedRows
<1>4. Typed'
  BY <1>1, <1>3 DEF IInv, Typed
<1>5. MemoryInv' /\ ValidInv' /\ LoadInv'
  BY <1>1 DEF IInv, MemoryInv, ValidInv, LoadInv
<1>6. \A j : Shown(j)' = Shown(j)
  BY <1>1 DEF Shown
<1>7. OrderInv'
  <2>1. OrderInv
    BY DEF IInv
  <2>2. \A r : RankAt(r)' = RankAt(r)
    BY <1>1 DEF RankAt
  <2>. QED
    BY <1>1, <1>6, <2>1, <2>2 DEF OrderInv
<1>8. WrittenInv'
  <2>1. RowsOut(wbuf) = [k \in 1..written |-> Shown(k)]
    BY DEF IInv, WrittenInv
  <2>2. [k \in 1..written |-> Shown(k)'] = [k \in 1..written |-> Shown(k)]
    BY <1>6
  <2>. QED
    BY <1>1, <1>3, <2>1, <2>2 DEF WrittenInv
<1>. QED
  BY <1>4, <1>5, <1>7, <1>8 DEF IInv

\* A step that changes nothing.
LEMMA Stutters ==
    ASSUME IInv, UNCHANGED vars
    PROVE  IInv'
<1>1. UNCHANGED <<input, rbuf, memory, array, wbuf, written, pc>>
  BY DEF vars
<1>2. Typed' /\ MemoryInv' /\ ValidInv' /\ LoadInv'
  BY <1>1 DEF IInv, Typed, MemoryInv, ValidInv, LoadInv, Shown
<1>3. OrderInv' /\ WrittenInv'
  BY <1>1 DEF IInv, OrderInv, WrittenInv, Shown, RankAt
<1>. QED
  BY <1>2, <1>3 DEF IInv

\* Every step of bsort keeps the invariant.
LEMMA NextInvariant == IInv /\ [Next]_vars => IInv'
<1>. SUFFICES ASSUME IInv, [Next]_vars PROVE IInv'
  OBVIOUS
<1>1. CASE Load
  BY <1>1, Loads
<1>2. CASE Sort
  BY <1>2, Sorts
<1>3. CASE WriteRow
  BY <1>3, WritesRow
<1>4. CASE Finish
  BY <1>4, Finishes
<1>5. CASE UNCHANGED vars
  BY <1>5, Stutters
<1>. QED
  BY <1>1, <1>2, <1>3, <1>4, <1>5 DEF Next, Terminated

\* What is loaded, sorted and dumped satisfies the invariant at every step.
THEOREM Invariance == Spec => []IInv
<1>1. Init => IInv
  BY Starts
<1>2. IInv /\ [Next]_vars => IInv'
  BY NextInvariant
<1>. QED
  BY <1>1, <1>2, PTL DEF Spec

\* The raw rows that bsort keeps show a whole row each, and no two the same,
\* from the moment they are made (READ_GROWING at src/bsort.c:1).
THEOREM PointersStayValid == Spec => []ArrayStaysValid
<1>1. IInv => ArrayStaysValid
  <2>. SUFFICES ASSUME IInv PROVE ArrayStaysValid
    OBVIOUS
  <2>1. \A k \in 1..Len(array) : ShowsRow(array[k], memory[array[k].meta], input.rows)
    BY DEF IInv, ValidInv
  <2>2. \A k, m \in 1..Len(array) : k # m => Shown(k) # Shown(m)
    BY DEF IInv, LoadInv, OrderInv
  <2>. QED
    BY <2>1, <2>2 DEF ArrayStaysValid, Shown
<1>. QED
  BY <1>1, Invariance, PTL

\* bsort meets no fatal error, and when it has ended every row of the input is
\* in the chunks written once, whole, and in order.
THEOREM Sorted == Spec => [](pc # "fatal" /\ (pc = "done" => SortedOutput))
<1>1. IInv => (pc # "fatal" /\ (pc = "done" => SortedOutput))
  <2>. SUFFICES ASSUME IInv PROVE pc # "fatal" /\ (pc = "done" => SortedOutput)
    OBVIOUS
  <2>1. pc # "fatal"
    BY DEF IInv, Typed
  <2>2. ASSUME pc = "done" PROVE SortedOutput
    <3>. DEFINE out == RowsOut(wbuf)
                n == Len(array)
                rank == [k \in 1..Len(out) |-> Rank(out[k], input.rows, input.reversed)]
    <3>1. /\ written = n /\ wbuf.buffer = << >> /\ out = [k \in 1..written |-> Shown(k)]
          /\ n \in Nat
      BY <2>2 DEF IInv, Typed, WrittenInv
    <3>2. /\ n = Len(input.rows)
          /\ \A i \in 1..n : \E k \in 1..n : Shown(k) = i
          /\ \A i, j \in 1..n : i < j => RankAt(array[i]) <= RankAt(array[j])
      BY <2>2 DEF IInv, OrderInv
    <3>3. \A c \in 1..Len(wbuf.file) : WholeRows(input.rows, wbuf.file[c])
      BY DEF IInv, Typed, WholeOutput
    <3>. HIDE DEF out, n
    <3>4. Len(out) = n /\ \A k \in 1..n : out[k] = Shown(k)
      BY <3>1
    <3>5. \A k \in 1..n : rank[k] = RankAt(array[k])
      BY <3>4 DEF RankAt, Shown
    <3>6. \A i \in 1..Len(input.rows) : \E k \in 1..Len(out) : out[k] = i
      BY <3>2, <3>4
    <3>. HIDE DEF rank
    <3>7. \A i, j \in 1..Len(out) : i < j => rank[i] <= rank[j]
      <4>. SUFFICES ASSUME NEW i \in 1..Len(out), NEW j \in 1..Len(out), i < j
                    PROVE  rank[i] <= rank[j]
        OBVIOUS
      <4>1. i \in 1..n /\ j \in 1..n
        BY <3>4
      <4>2. rank[i] = RankAt(array[i]) /\ rank[j] = RankAt(array[j])
        BY <3>5, <4>1
      <4>3. RankAt(array[i]) <= RankAt(array[j])
        BY <3>2, <4>1
      <4>. QED
        BY <4>2, <4>3
    <3>. QED
      BY <3>1, <3>2, <3>3, <3>4, <3>6, <3>7 DEF SortedOutput, out, rank
  <2>. QED
    BY <2>1, <2>2
<1>. QED
  BY <1>1, Invariance, PTL
=============================================================================
