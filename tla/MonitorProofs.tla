---------------------------- MODULE MonitorProofs ----------------------------
(***************************************************************************)
(* What holds of the monitor and the work, which share the buffer without  *)
(* a lock, for any tasks and any sizes.                                    *)
(***************************************************************************)
EXTENDS Monitor, ProfilerProofs

\* The types of the buffer and of the monitor's variables.
BufTypeOK ==
    /\ mem_buf \in [0 .. Words - 1 -> Int]
    /\ printed \in [0 .. Words - 1 -> Nat]
    /\ index \in 0 .. BUFD_MAX
    /\ mon \in {"off", "find", "test", "print", "erase"}

\* A word that was printed is behind mem_buf_ptr, and it is erased, or the
\* monitor is about to erase it; a word that is not 0 or erased was written.
OnceAt(i) ==
    /\ printed[i] <= 1
    /\ mem_buf[i] > 0 => i < mem_buf_ptr
    /\ printed[i] = 1 =>
          /\ i < mem_buf_ptr
          /\ mem_buf[i] > 0 => mon = "erase" /\ index = i

OnceOK == \A i \in 0 .. Words - 1 : OnceAt(i)

OnceInv == TypeOK /\ BufTypeOK /\ OnceOK

\* mem_buf_ptr moves by one word at a time, inside of the buffer.
LEMMA PtrStep ==
    ASSUME TypeOK, Next, mem_buf_ptr' # mem_buf_ptr
    PROVE  mem_buf_ptr' = mem_buf_ptr + 1 /\ mem_buf_ptr < Words
BY DEF TypeOK, Next, Workload, registration, RegisterTest, RegisterAdd, unregistration,
       UnregisterRemove, UnregisterTest, cancel_delayed_work, FlushCall,
       UnregisterReturn, TimerExpires, mp_work_func, WorkStart, WorkMeasure,
       WorkWrite, WorkRequeue, mp_exit, ExitBegin, ExitFree

\* The number of a sample is positive.
LEMMA SampleNumber ==
    ASSUME NEW n \in Nat
    PROVE  n \div Width + 1 \in Nat
BY ProfilerAssumption

\* A step of the monitor that neither prints nor erases keeps OnceOK.
LEMMA OnceKept ==
    ASSUME OnceOK, mon # "erase", UNCHANGED <<mem_buf, printed, mem_buf_ptr>>
    PROVE  OnceOK'
<1> SUFFICES ASSUME NEW i \in 0 .. Words - 1 PROVE OnceAt(i)'
    BY DEF OnceOK
<1>1. OnceAt(i)
    BY DEF OnceOK
<1>2. QED BY <1>1 DEF OnceAt

\* Every step of the work and of the monitor keeps OnceInv.
LEMMA OnceStep ==
    ASSUME OnceInv, [MonitorNext]_<<vars, bufVars>>
    PROVE  OnceInv'
<1>0. BUFD_MAX \in Nat /\ 0 < BUFD_MAX /\ BUFD_MAX < Words /\ Words \in Nat
    BY ProfilerAssumption, MonitorAssumption
<1> USE <1>0
<1> USE DEF OnceInv, BufTypeOK, OnceOK, OnceAt, Erased
<1>1. CASE KernelStep
    <2>1. TypeOK'
        BY <1>1, TypeStep DEF KernelStep
    <2>2. CASE mem_buf_ptr' = mem_buf_ptr
        BY <1>1, <2>1, <2>2 DEF KernelStep
    <2>3. CASE mem_buf_ptr' # mem_buf_ptr
        <3>1. mem_buf_ptr' = mem_buf_ptr + 1 /\ mem_buf_ptr < Words
            BY <1>1, <2>3, PtrStep DEF KernelStep
        <3>2. mem_buf_ptr \in 0 .. Words - 1 /\ mem_buf_ptr \in Nat
            BY <3>1 DEF TypeOK
        <3>3. PICK v \in Nat : mem_buf' = [mem_buf EXCEPT ![mem_buf_ptr] = v]
            BY <1>1, <2>3, <3>2, SampleNumber DEF KernelStep
        <3>4. UNCHANGED <<printed, index, mon>>
            BY <1>1 DEF KernelStep
        <3>5. QED BY <2>1, <3>1, <3>2, <3>3, <3>4
    <2>4. QED BY <2>2, <2>3
<1>2. ASSUME UNCHANGED vars PROVE TypeOK' /\ mem_buf_ptr' = mem_buf_ptr
    BY <1>2, TypeStep DEF vars
<1>3. CASE buf_init
    <2>1. TypeOK' /\ mem_buf_ptr' = mem_buf_ptr
        BY <1>2, <1>3 DEF buf_init
    <2>2. /\ UNCHANGED <<mem_buf, printed>> /\ index' = 0
          /\ mon = "off" /\ mon' = "find"
        BY <1>3 DEF buf_init
    <2>3. BufTypeOK'
        BY <2>2
    <2>4. OnceOK'
        BY <2>1, <2>2, OnceKept
    <2>5. QED BY <2>1, <2>3, <2>4
<1>4. CASE Find
    <2>1. TypeOK' /\ mem_buf_ptr' = mem_buf_ptr
        BY <1>2, <1>4 DEF Find
    <2>2. /\ UNCHANGED <<mem_buf, printed>> /\ mon = "find"
          /\ mon' \in {"find", "test"}
          /\ index' \in 0 .. BUFD_MAX
        <3>1. CASE index < BUFD_MAX /\ mem_buf[index] = Erased
            BY <1>4, <3>1 DEF Find
        <3>2. CASE ~(index < BUFD_MAX /\ mem_buf[index] = Erased)
            BY <1>4, <3>2 DEF Find
        <3>3. QED BY <3>1, <3>2
    <2>3. BufTypeOK'
        BY <2>2
    <2>4. OnceOK'
        BY <2>1, <2>2, OnceKept
    <2>5. QED BY <2>1, <2>3, <2>4
<1>5. CASE Test
    <2>1. TypeOK' /\ mem_buf_ptr' = mem_buf_ptr
        BY <1>2, <1>5 DEF Test
    <2>2. /\ UNCHANGED <<mem_buf, printed, index>> /\ mon = "test"
          /\ mon' \in {"off", "print"}
        BY <1>5 DEF Test
    <2>3. BufTypeOK'
        BY <2>2
    <2>4. OnceOK'
        BY <2>1, <2>2, OnceKept
    <2>5. QED BY <2>1, <2>3, <2>4
<1>6. CASE PrintWord
    <2>1. TypeOK' /\ mem_buf_ptr' = mem_buf_ptr
        BY <1>2, <1>6 DEF PrintWord
    <2>2. /\ UNCHANGED <<mem_buf, index>> /\ mon = "print" /\ mon' = "erase"
          /\ printed' = IF mem_buf[index] > 0
                        THEN [printed EXCEPT ![index] = @ + 1] ELSE printed
        BY <1>6 DEF PrintWord
    <2>3. BufTypeOK'
        BY <2>2
    <2>4. OnceOK'
        BY <2>1, <2>2 DEF TypeOK
    <2>5. QED BY <2>1, <2>3, <2>4
<1>7. CASE EraseWord
    <2>1. TypeOK' /\ mem_buf_ptr' = mem_buf_ptr
        BY <1>2, <1>7 DEF EraseWord
    <2>2. /\ UNCHANGED printed /\ mon = "erase" /\ mon' \in {"print", "test"}
          /\ mem_buf' = [mem_buf EXCEPT ![index] = Erased]
          /\ index' \in 0 .. BUFD_MAX
        BY <1>7 DEF EraseWord, EndOfWord
    <2>i. index \in 0 .. Words - 1 /\ Erased \in Int /\ ~(Erased > 0)
        OBVIOUS
    <2>3. BufTypeOK'
        <3>1. mem_buf' \in [0 .. Words - 1 -> Int]
            BY <2>2, <2>i
        <3>2. QED BY <2>2, <3>1
    <2>4. OnceOK'
        <3> SUFFICES ASSUME NEW i \in 0 .. Words - 1 PROVE OnceAt(i)'
            OBVIOUS
        <3>1. CASE i = index
            BY <2>1, <2>2, <2>i, <3>1
        <3>2. CASE i # index
            BY <2>1, <2>2, <2>i, <3>2
        <3>3. QED BY <3>1, <3>2
    <2>5. QED BY <2>1, <2>3, <2>4
<1>8. CASE UNCHANGED <<vars, bufVars>>
    BY <1>8, TypeStep DEF vars, bufVars
<1>9. QED
    BY <1>1, <1>3, <1>4, <1>5, <1>6, <1>7, <1>8 DEF MonitorNext, main

\* No word of a sample is printed twice, although the monitor erases it only
\* after printing and the work goes on in between.
THEOREM OnceCorrect == MonitorSpec => []PrintedOnce
<1>1. MonitorInit => OnceInv
    BY TypeInit, ProfilerAssumption, MonitorAssumption
    DEF MonitorInit, Init, OnceInv, BufTypeOK, OnceOK, OnceAt
<1>2. OnceInv /\ [MonitorNext]_<<vars, bufVars>> => OnceInv'
    BY OnceStep
<1>3. OnceInv => PrintedOnce
    BY DEF OnceInv, BufTypeOK, OnceOK, OnceAt, PrintedOnce
<1>4. QED BY <1>1, <1>2, <1>3, PTL DEF MonitorSpec
-----------------------------------------------------------------------------
(* What a monitor finds that no sample overtakes.                          *)

\* What the work writes to word i, or 0 before it has.
Sample(i) == IF i < mem_buf_ptr THEN i \div Width + 1 ELSE 0

\* Word i waits for the monitor, which may have printed but not erased it.
Waits(i) ==
    /\ mem_buf[i] = Sample(i)
    /\ i < mem_buf_ptr => printed[i] = IF mon = "erase" /\ index = i THEN 1 ELSE 0

\* The monitor is done with word i.
IsDone(i) ==
    /\ mem_buf[i] = Erased
    /\ i < mem_buf_ptr => printed[i] = 1

\* The words that wait are e, e + 1, ..., g - 1.  The first run finds all of
\* the monitor's part of the buffer, later ones find what was written since.
Interval(e, g) ==
    /\ e <= g /\ g \in {BUFD_MAX, mem_buf_ptr}
    /\ \A i \in 0 .. BUFD_MAX - 1 : IF e <= i /\ i < g THEN Waits(i) ELSE IsDone(i)
    /\ complete => e = g

\* The monitor is at word e, after n words of the line that begins at start.
\* They belong to one sample.
LineAt(start, n, e) ==
    /\ start % Width = 0 /\ e = start + n /\ n < Width /\ index = e
    /\ \A i \in DOMAIN row : row[i] = Sample(start)

\* The monitor works its way through the interval line by line.  When nothing
\* is left it may still print one line that begins at BUFD_MAX.
Position(e, g) ==
    /\ mon = "off" => e <= mem_buf_ptr
    /\ mon # "off" => mem_buf_ptr % Width = 0
    /\ mon \in {"off", "find", "test"} => row = <<>> /\ e % Width = 0
    /\ mon = "find" /\ e < g => index <= e
    /\ mon = "test" /\ e < g => index = e
    /\ mon = "print" =>
        IF e < g THEN LineAt(IF row = <<>> THEN index ELSE from, Len(row), e)
        ELSE IF row = <<>> THEN index = BUFD_MAX ELSE from = BUFD_MAX
    /\ mon = "erase" =>
        /\ row # <<>>
        /\ IF e < g THEN LineAt(from, Len(row) - 1, e) ELSE from = BUFD_MAX

LineTypeOK ==
    /\ row \in Seq(Int) /\ from \in 0 .. BUFD_MAX
    /\ torn \in BOOLEAN /\ overlap \in BOOLEAN /\ complete \in BOOLEAN

SweepOK ==
    ~overlap => ~torn /\ \E e, g \in 0 .. BUFD_MAX : Interval(e, g) /\ Position(e, g)

SweepInv == OnceInv /\ LineTypeOK /\ SweepOK

\* Lines: their starts are the multiples of Width.
LEMMA Multiple ==
    ASSUME NEW x \in Nat, x % Width = 0
    PROVE  \E q \in Nat : x = Width * q
<1>1. Width \in Nat /\ Width > 0
    BY ProfilerAssumption
<1>2. QED BY <1>1, Z3

LEMMA NextLine ==
    ASSUME NEW x \in Nat, NEW y \in Nat, x % Width = 0, y % Width = 0, x < y
    PROVE  x + Width <= y
<1>1. Width \in Nat /\ Width > 0
    BY ProfilerAssumption
<1>2. PICK q \in Nat : x = Width * q
    BY Multiple
<1>3. PICK r \in Nat : y = Width * r
    BY Multiple
<1>4. r - q >= 1
    BY <1>1, <1>2, <1>3, Z3
<1>5. Width * (r - q) >= Width
    BY <1>1, <1>4, Z3
<1>6. Width * (r - q) = Width * r - Width * q
    BY <1>1, Z3
<1>7. QED BY <1>1, <1>2, <1>3, <1>5, <1>6

LEMMA LineEnd ==
    ASSUME NEW x \in Nat, x % Width = 0
    PROVE  (x + Width) % Width = 0
<1>1. Width \in Nat /\ Width > 0
    BY ProfilerAssumption
<1>2. PICK q \in Nat : x = Width * q
    BY Multiple
<1>3. x + Width = Width * (q + 1)
    BY <1>1, <1>2, Z3
<1>4. \A d \in Int : (Width * d) % Width = 0
    BY <1>1, Z3
<1>5. QED BY <1>3, <1>4

\* The words of a line belong to one sample, or none of them was written.
LEMMA LineSample ==
    ASSUME NEW x \in Nat, NEW n \in Nat, n < Width, x % Width = 0,
           mem_buf_ptr \in Nat, mem_buf_ptr % Width = 0
    PROVE  Sample(x + n) = Sample(x)
<1>1. Width \in Nat /\ Width > 0
    BY ProfilerAssumption
<1>2. (x + n) \div Width = x \div Width
    BY <1>1, Z3
<1>3. x < mem_buf_ptr => x + Width <= mem_buf_ptr
    BY NextLine
<1>4. x + n < mem_buf_ptr <=> x < mem_buf_ptr
    BY <1>1, <1>3
<1>5. QED BY <1>2, <1>4 DEF Sample

LEMMA Sizes ==
    /\ Width \in Nat /\ Width > 0 /\ Words \in Nat
    /\ BUFD_MAX \in Nat /\ 0 < BUFD_MAX /\ BUFD_MAX < Words
    /\ BUFD_MAX % Width = 0 /\ 0 % Width = 0
<1>1. Width \in Nat /\ Width > 0 /\ Words \in Nat
    BY ProfilerAssumption
<1>2. BUFD_MAX \in Nat /\ 0 < BUFD_MAX /\ BUFD_MAX < Words /\ BUFD_MAX % Width = 0
    BY <1>1, MonitorAssumption
<1>3. 0 % Width = 0
    BY <1>1, Z3
<1>4. QED BY <1>1, <1>2, <1>3

\* A word that waits is not erased.
LEMMA SampleType ==
    ASSUME NEW i \in Nat
    PROVE  /\ Sample(i) \in Nat /\ Sample(i) # Erased
           /\ i < mem_buf_ptr => Sample(i) > 0
<1>1. i \div Width + 1 \in Nat /\ i \div Width + 1 > 0
    <2>1. i \div Width \in Nat
        BY Sizes, Z3
    <2>2. QED BY <2>1
<1>2. QED BY <1>1 DEF Sample, Erased

LEMMA WaitsNotErased ==
    ASSUME NEW i \in Nat, Waits(i)
    PROVE  mem_buf[i] # Erased
BY SampleType DEF Waits

LEMMA Swept ==
    ASSUME NEW e \in 0 .. BUFD_MAX, NEW g \in 0 .. BUFD_MAX,
           Interval(e, g)', Position(e, g)', ~torn'
    PROVE  SweepOK'
BY DEF SweepOK

\* A step that writes nothing to the buffer and leaves the erase loop alone.
LEMMA IntervalKept ==
    ASSUME NEW e, NEW g, Interval(e, g), UNCHANGED <<mem_buf, mem_buf_ptr, printed>>,
           mon # "erase", mon' # "erase", complete' => complete
    PROVE  Interval(e, g)'
<1> SUFFICES ASSUME NEW i \in 0 .. BUFD_MAX - 1
             PROVE  IF e <= i /\ i < g THEN Waits(i)' ELSE IsDone(i)'
    BY DEF Interval
<1>1. IF e <= i /\ i < g THEN Waits(i) ELSE IsDone(i)
    BY DEF Interval
<1>2. QED BY <1>1 DEF Waits, IsDone, Sample

\* The work writes a word while no monitor runs.
LEMMA SweepWrite ==
    ASSUME SweepInv, KernelStep, mem_buf_ptr' # mem_buf_ptr, ~overlap'
    PROVE  SweepOK'
<1>1. /\ mem_buf' = [mem_buf EXCEPT ![mem_buf_ptr] = mem_buf_ptr \div Width + 1]
      /\ overlap' = (overlap \/ mon # "off") /\ complete' = FALSE
      /\ UNCHANGED <<mon, index, row, from, printed, torn>>
    BY DEF KernelStep
<1>2. ~overlap /\ mon = "off"
    BY <1>1
<1>3. mem_buf_ptr' = mem_buf_ptr + 1 /\ mem_buf_ptr < Words /\ mem_buf_ptr \in Nat
    <2>1. mem_buf_ptr' = mem_buf_ptr + 1 /\ mem_buf_ptr < Words
        BY PtrStep DEF SweepInv, OnceInv, KernelStep
    <2>2. QED BY <2>1 DEF SweepInv, OnceInv, TypeOK
<1>4. PICK e \in 0 .. BUFD_MAX, g \in 0 .. BUFD_MAX : Interval(e, g) /\ Position(e, g)
    BY <1>2 DEF SweepInv, SweepOK
<1>5. e <= g /\ g \in {BUFD_MAX, mem_buf_ptr} /\ e <= mem_buf_ptr /\ e % Width = 0 /\ row = <<>>
    BY <1>2, <1>4 DEF Interval, Position
<1>6. PICK h \in 0 .. BUFD_MAX : h = IF g < BUFD_MAX THEN g + 1 ELSE g
    BY Sizes
<1>7. /\ e <= h /\ h \in {BUFD_MAX, mem_buf_ptr + 1}
      /\ mem_buf_ptr < BUFD_MAX => e <= mem_buf_ptr /\ mem_buf_ptr < h
      /\ \A i \in 0 .. BUFD_MAX - 1 : i # mem_buf_ptr => (i < h <=> i < g)
    BY <1>3, <1>5, <1>6, Sizes
<1>8. ASSUME NEW i \in 0 .. BUFD_MAX - 1
      PROVE  IF e <= i /\ i < h THEN Waits(i)' ELSE IsDone(i)'
    <2>0. i \in 0 .. Words - 1 /\ mem_buf \in [0 .. Words - 1 -> Int] /\ i \in Nat
        BY Sizes DEF SweepInv, OnceInv, BufTypeOK
    <2>1. CASE i = mem_buf_ptr
        <3>1. e <= i /\ i < h
            BY <1>7, <2>1
        <3>2. mem_buf'[i] = i \div Width + 1
            BY <1>1, <2>0, <2>1
        <3>3. printed[i] = 0
            BY <1>3, <2>0, <2>1 DEF SweepInv, OnceInv, BufTypeOK, OnceOK, OnceAt
        <3>4. Waits(i)'
            BY <1>1, <1>2, <1>3, <2>1, <3>2, <3>3 DEF Waits, Sample
        <3>5. QED BY <3>1, <3>4
    <2>2. CASE i # mem_buf_ptr
        <3>1. IF e <= i /\ i < h THEN Waits(i) ELSE IsDone(i)
            BY <1>4, <1>7, <2>2 DEF Interval
        <3>2. mem_buf'[i] = mem_buf[i]
            BY <1>1, <2>0, <2>2
        <3>3. i < mem_buf_ptr' <=> i < mem_buf_ptr
            BY <1>3, <2>0, <2>2
        <3>4. Waits(i) => Waits(i)'
            BY <1>1, <3>2, <3>3 DEF Waits, Sample
        <3>5. IsDone(i) => IsDone(i)'
            BY <1>1, <3>2, <3>3 DEF IsDone
        <3>6. QED BY <3>1, <3>4, <3>5
    <2>3. QED BY <2>1, <2>2
<1>9. Interval(e, h)'
    BY <1>1, <1>3, <1>7, <1>8 DEF Interval
<1>10. Position(e, h)'
    BY <1>1, <1>2, <1>3, <1>5 DEF Position
<1>11. ~torn'
    BY <1>1, <1>2 DEF SweepInv, SweepOK
<1>12. QED BY <1>9, <1>10, <1>11, Swept

LEMMA SweepStart ==
    ASSUME SweepInv, buf_init, ~overlap'
    PROVE  SweepOK'
<1>1. /\ mon = "off" /\ mon' = "find" /\ index' = 0 /\ row' = <<>>
      /\ overlap' = (overlap \/ mem_buf_ptr % Width # 0)
      /\ UNCHANGED <<mem_buf_ptr, mem_buf, from, printed, torn, complete>>
    BY DEF buf_init, vars
<1>2. ~overlap /\ mem_buf_ptr % Width = 0
    BY <1>1
<1>3. PICK e \in 0 .. BUFD_MAX, g \in 0 .. BUFD_MAX : Interval(e, g) /\ Position(e, g)
    BY <1>2 DEF SweepInv, SweepOK
<1>4. Interval(e, g)'
    BY <1>1, <1>3, IntervalKept
<1>5. e % Width = 0 /\ 0 <= e
    BY <1>1, <1>3 DEF Position
<1>6. Position(e, g)'
    BY <1>1, <1>2, <1>5 DEF Position
<1>7. ~torn'
    BY <1>1, <1>2 DEF SweepInv, SweepOK
<1>8. QED BY <1>4, <1>6, <1>7, Swept

\* The first loop stops at the first word that waits.
LEMMA SweepFind ==
    ASSUME SweepInv, Find, ~overlap'
    PROVE  SweepOK'
<1>1. /\ mon = "find" /\ mon' \in {"find", "test"}
      /\ UNCHANGED <<mem_buf_ptr, mem_buf, row, from, printed, torn, overlap, complete>>
    BY DEF Find, vars
<1>2. PICK e \in 0 .. BUFD_MAX, g \in 0 .. BUFD_MAX : Interval(e, g) /\ Position(e, g)
    BY <1>1 DEF SweepInv, SweepOK
<1>3. Interval(e, g)'
    BY <1>1, <1>2, IntervalKept
<1>4. /\ row = <<>> /\ e % Width = 0 /\ mem_buf_ptr % Width = 0
      /\ e < g => index <= e
    BY <1>1, <1>2 DEF Position
<1>5. index \in 0 .. BUFD_MAX
    BY DEF SweepInv, OnceInv, BufTypeOK
<1>6. ASSUME e < g
      PROVE  /\ e \in 0 .. BUFD_MAX - 1 /\ mem_buf[e] # Erased
             /\ index < e => mem_buf[index] = Erased
    <2>1. e \in 0 .. BUFD_MAX - 1
        BY <1>6, Sizes
    <2>2. Waits(e)
        BY <1>2, <1>6, <2>1 DEF Interval
    <2>3. index < e => index \in 0 .. BUFD_MAX - 1 /\ ~(e <= index)
        BY <1>5, <2>1, Sizes
    <2>4. index < e => IsDone(index)
        BY <1>2, <2>3 DEF Interval
    <2>5. QED BY <2>1, <2>2, <2>4, WaitsNotErased DEF IsDone
<1>7. CASE index < BUFD_MAX /\ mem_buf[index] = Erased
    <2>1. mon' = "find" /\ index' = index + 1
        BY <1>1, <1>7 DEF Find
    <2>2. e < g => index + 1 <= e
        <3>1. SUFFICES ASSUME e < g PROVE index + 1 <= e
            OBVIOUS
        <3>2. index <= e /\ index # e
            BY <1>4, <1>6, <1>7, <3>1
        <3>3. QED BY <1>5, <3>2, Sizes
    <2>3. Position(e, g)'
        BY <1>1, <1>4, <2>1, <2>2 DEF Position
    <2>4. QED BY <1>1, <1>3, <2>3, Swept DEF SweepInv, SweepOK
<1>8. CASE ~(index < BUFD_MAX /\ mem_buf[index] = Erased)
    <2>1. mon' = "test" /\ index' = index
        BY <1>1, <1>8 DEF Find
    <2>2. e < g => index = e
        <3>1. SUFFICES ASSUME e < g PROVE index = e
            OBVIOUS
        <3>2. index <= e /\ e < BUFD_MAX
            BY <1>4, <1>6, <3>1, Sizes
        <3>3. index < BUFD_MAX
            BY <1>5, <3>2, Sizes
        <3>4. ~(index < e)
            BY <1>6, <1>8, <3>1, <3>3
        <3>5. QED BY <1>5, <3>2, <3>4, Sizes
    <2>3. Position(e, g)'
        BY <1>1, <1>4, <2>1, <2>2 DEF Position
    <2>4. QED BY <1>1, <1>3, <2>3, Swept DEF SweepInv, SweepOK
<1>9. QED BY <1>7, <1>8

\* The monitor ends when no word waits, or goes on at the first one.
LEMMA SweepTest ==
    ASSUME SweepInv, Test, ~overlap'
    PROVE  SweepOK'
<1>1. /\ mon = "test" /\ mon' = IF mem_buf[index] = Erased THEN "off" ELSE "print"
      /\ complete' = (complete \/ mon' = "off")
      /\ UNCHANGED <<mem_buf_ptr, mem_buf, index, row, from, printed, torn, overlap>>
    BY DEF Test, vars
<1>2. PICK e \in 0 .. BUFD_MAX, g \in 0 .. BUFD_MAX : Interval(e, g) /\ Position(e, g)
    BY <1>1 DEF SweepInv, SweepOK
<1>3. /\ row = <<>> /\ e % Width = 0 /\ mem_buf_ptr % Width = 0
      /\ e < g => index = e
    BY <1>1, <1>2 DEF Position
<1>4. index \in 0 .. BUFD_MAX /\ mem_buf_ptr \in Nat
    BY DEF SweepInv, OnceInv, BufTypeOK, TypeOK
<1>5. e < g => mem_buf[index] # Erased
    <2>1. SUFFICES ASSUME e < g PROVE mem_buf[index] # Erased
        OBVIOUS
    <2>2. e \in 0 .. BUFD_MAX - 1 /\ e \in Nat
        BY <2>1, Sizes
    <2>3. Waits(e)
        BY <1>2, <2>1, <2>2 DEF Interval
    <2>4. QED BY <1>3, <2>1, <2>2, <2>3, WaitsNotErased
<1>6. ASSUME ~(e < g), NEW i \in 0 .. BUFD_MAX - 1
      PROVE  IsDone(i)
    <2>1. ~(e <= i /\ i < g)
        BY <1>6, Sizes
    <2>2. QED BY <1>2, <2>1 DEF Interval
<1>7. CASE mem_buf[index] = Erased
    <2>1. mon' = "off" /\ ~(e < g)
        BY <1>1, <1>5, <1>7
    <2>2. PICK n \in 0 .. BUFD_MAX : n = IF mem_buf_ptr < BUFD_MAX THEN mem_buf_ptr ELSE BUFD_MAX
        BY <1>4, Sizes
    <2>3. n % Width = 0 /\ n <= mem_buf_ptr /\ n \in {BUFD_MAX, mem_buf_ptr} /\ n <= n
        BY <1>3, <1>4, <2>2, Sizes
    <2>4. ASSUME NEW i \in 0 .. BUFD_MAX - 1
          PROVE  ~(n <= i /\ i < n) /\ IsDone(i)'
        <3>1. IsDone(i)
            BY <1>6, <2>1
        <3>2. IsDone(i)'
            BY <1>1, <3>1 DEF IsDone
        <3>3. QED BY <3>2, Sizes
    <2>5. Interval(n, n)'
        BY <1>1, <2>3, <2>4 DEF Interval
    <2>6. Position(n, n)'
        BY <1>1, <1>3, <2>1, <2>3 DEF Position
    <2>7. QED BY <1>1, <2>5, <2>6, Swept DEF SweepInv, SweepOK
<1>8. CASE mem_buf[index] # Erased
    <2>1. mon' = "print" /\ (complete' => complete)
        BY <1>1, <1>8
    <2>2. Interval(e, g)'
        BY <1>1, <1>2, <2>1, IntervalKept
    <2>3. CASE e < g
        <3>1. LineAt(index, 0, e)'
            BY <1>1, <1>3, <2>3, Sizes DEF LineAt
        <3>2. Len(row) = 0
            BY <1>3
        <3>3. Position(e, g)'
            BY <1>1, <1>3, <2>1, <2>3, <3>1, <3>2 DEF Position
        <3>4. QED BY <1>1, <2>2, <3>3, Swept DEF SweepInv, SweepOK
    <2>4. CASE ~(e < g)
        <3>1. index = BUFD_MAX
            <4>1. index \notin 0 .. BUFD_MAX - 1
                BY <1>6, <1>8, <2>4 DEF IsDone
            <4>2. QED BY <1>4, <4>1, Sizes
        <3>2. Position(e, g)'
            BY <1>1, <1>3, <2>1, <2>4, <3>1 DEF Position
        <3>3. QED BY <1>1, <2>2, <3>2, Swept DEF SweepInv, SweepOK
    <2>5. QED BY <2>3, <2>4
<1>9. QED BY <1>7, <1>8

\* A word that waits is printed, and counts as printed if it is of a sample.
LEMMA SweepPrint ==
    ASSUME SweepInv, PrintWord, ~overlap'
    PROVE  SweepOK'
<1>1. /\ mon = "print" /\ mon' = "erase" /\ row' = Append(row, mem_buf[index])
      /\ from' = IF row = <<>> THEN index ELSE from
      /\ printed' = IF mem_buf[index] > 0 THEN [printed EXCEPT ![index] = @ + 1] ELSE printed
      /\ UNCHANGED <<mem_buf_ptr, mem_buf, index, torn, overlap, complete>>
    BY DEF PrintWord, vars
<1>2. PICK e \in 0 .. BUFD_MAX, g \in 0 .. BUFD_MAX : Interval(e, g) /\ Position(e, g)
    BY <1>1 DEF SweepInv, SweepOK
<1>3. /\ index \in 0 .. BUFD_MAX /\ mem_buf_ptr \in Nat /\ row \in Seq(Int)
      /\ mem_buf \in [0 .. Words - 1 -> Int] /\ printed \in [0 .. Words - 1 -> Nat]
      /\ from \in 0 .. BUFD_MAX
    BY DEF SweepInv, OnceInv, BufTypeOK, TypeOK, LineTypeOK
<1>4. index \in 0 .. Words - 1 /\ mem_buf[index] \in Int
    BY <1>3, Sizes
<1>5. /\ Len(row) \in Nat /\ Len(row') = Len(row) + 1 /\ row' # <<>> /\ DOMAIN row' = 1 .. Len(row')
      /\ DOMAIN row = 1 .. Len(row)
      /\ \A i \in DOMAIN row' : row'[i] = IF i = Len(row) + 1 THEN mem_buf[index] ELSE row[i]
    BY <1>1, <1>3, <1>4
<1>6. mem_buf_ptr % Width = 0
    BY <1>1, <1>2 DEF Position
<1>7. e <= g /\ g \in {BUFD_MAX, mem_buf_ptr} /\ (complete => e = g)
    BY <1>2 DEF Interval
<1>8. CASE e < g
    <2>1. PICK start \in 0 .. BUFD_MAX : start = IF row = <<>> THEN index ELSE from
        BY <1>3
    <2>2. LineAt(start, Len(row), e)
        BY <1>1, <1>2, <1>8, <2>1 DEF Position
    <2>3. /\ start % Width = 0 /\ e = start + Len(row) /\ Len(row) < Width /\ index = e
          /\ \A i \in DOMAIN row : row[i] = Sample(start)
        BY <2>2 DEF LineAt
    <2>4. e \in 0 .. BUFD_MAX - 1 /\ e \in Nat /\ start \in Nat
        BY <1>8, Sizes
    <2>5. Waits(e)
        BY <1>2, <1>8, <2>4 DEF Interval
    <2>6. mem_buf[e] = Sample(e) /\ Sample(e) = Sample(start)
        <3>1. Sample(start + Len(row)) = Sample(start)
            BY <1>3, <1>5, <1>6, <2>3, <2>4, LineSample
        <3>2. QED BY <2>3, <2>5, <3>1 DEF Waits
    <2>7. ASSUME NEW i \in DOMAIN row'
          PROVE  row'[i] = Sample(start)'
        <3>1. Sample(start)' = Sample(start)
            BY <1>1 DEF Sample
        <3>2. CASE i = Len(row) + 1
            BY <1>5, <2>3, <2>6, <3>1, <3>2
        <3>3. CASE i # Len(row) + 1
            <4>1. i \in DOMAIN row
                BY <1>5, <3>3
            <4>2. row'[i] = row[i]
                BY <1>5, <3>3
            <4>3. QED BY <2>3, <3>1, <4>1, <4>2
        <3>4. QED BY <3>2, <3>3
    <2>8. LineAt(from, Len(row) - 1, e)'
        <3>1. from' = start /\ Len(row') - 1 = Len(row)
            BY <1>1, <1>5, <2>1
        <3>2. QED BY <1>1, <2>3, <2>7, <3>1 DEF LineAt
    <2>9. Position(e, g)'
        BY <1>1, <1>5, <1>6, <1>8, <2>8 DEF Position
    <2>10. ASSUME NEW i \in 0 .. BUFD_MAX - 1
           PROVE  IF e <= i /\ i < g THEN Waits(i)' ELSE IsDone(i)'
        <3>1. IF e <= i /\ i < g THEN Waits(i) ELSE IsDone(i)
            BY <1>2 DEF Interval
        <3>2. CASE i = e
            <4>1. i < mem_buf_ptr => mem_buf[i] > 0
                BY <2>4, <2>6, <3>2, SampleType
            <4>2. i < mem_buf_ptr => printed[i] = 0
                BY <1>1, <2>5, <3>2 DEF Waits
            <4>3. i < mem_buf_ptr => printed'[i] = 1
                BY <1>1, <1>3, <1>4, <2>3, <3>2, <4>1, <4>2
            <4>4. Waits(i)'
                BY <1>1, <2>3, <2>6, <3>2, <4>3 DEF Waits, Sample
            <4>5. QED BY <1>8, <2>4, <3>2, <4>4
        <3>3. CASE i # e
            <4>1. printed'[i] = printed[i]
                BY <1>1, <1>3, <2>3, <3>3, Sizes
            <4>2. Waits(i) => Waits(i)'
                BY <1>1, <2>3, <3>3, <4>1 DEF Waits, Sample
            <4>3. IsDone(i) => IsDone(i)'
                BY <1>1, <4>1 DEF IsDone
            <4>4. QED BY <3>1, <4>2, <4>3
        <3>4. QED BY <3>2, <3>3
    <2>11. Interval(e, g)'
        BY <1>1, <1>7, <2>10 DEF Interval
    <2>12. QED BY <1>1, <2>9, <2>11, Swept DEF SweepInv, SweepOK
<1>9. CASE ~(e < g)
    <2>1. from' = BUFD_MAX
        BY <1>1, <1>2, <1>9 DEF Position
    <2>2. Position(e, g)'
        BY <1>1, <1>5, <1>6, <1>9, <2>1 DEF Position
    <2>3. ASSUME NEW i \in 0 .. BUFD_MAX - 1
          PROVE  ~(e <= i /\ i < g) /\ IsDone(i)'
        <3>1. ~(e <= i /\ i < g)
            BY <1>9, Sizes
        <3>2. IsDone(i)
            BY <1>2, <3>1 DEF Interval
        <3>3. printed'[i] = printed[i]
            BY <1>1, <1>3, <1>4, <3>2, Sizes DEF IsDone, Erased
        <3>4. QED BY <1>1, <3>1, <3>2, <3>3 DEF IsDone
    <2>4. Interval(e, g)'
        BY <1>1, <1>7, <2>3 DEF Interval
    <2>5. QED BY <1>1, <2>2, <2>4, Swept DEF SweepInv, SweepOK
<1>10. QED BY <1>8, <1>9

\* The word is erased: the interval that waits gets shorter, and a line ends
\* where a sample ends.
LEMMA SweepErase ==
    ASSUME SweepInv, EraseWord, ~overlap'
    PROVE  SweepOK'
<1>1. /\ mon = "erase" /\ mem_buf' = [mem_buf EXCEPT ![index] = Erased]
      /\ index' = IF index + 1 >= BUFD_MAX THEN 0 ELSE index + 1
      /\ EndOfWord
      /\ UNCHANGED <<mem_buf_ptr, printed, overlap, complete>>
    BY DEF EraseWord, vars
<1>2. PICK e \in 0 .. BUFD_MAX, g \in 0 .. BUFD_MAX : Interval(e, g) /\ Position(e, g)
    BY <1>1 DEF SweepInv, SweepOK
<1>3. /\ index \in 0 .. BUFD_MAX /\ mem_buf_ptr \in Nat /\ row \in Seq(Int)
      /\ mem_buf \in [0 .. Words - 1 -> Int] /\ from \in 0 .. BUFD_MAX
      /\ index \in 0 .. Words - 1 /\ Len(row) \in Nat /\ DOMAIN row = 1 .. Len(row)
    BY Sizes DEF SweepInv, OnceInv, BufTypeOK, TypeOK, LineTypeOK
<1>4. mem_buf_ptr % Width = 0 /\ row # <<>>
    BY <1>1, <1>2 DEF Position
<1>5. e <= g /\ g \in {BUFD_MAX, mem_buf_ptr} /\ (complete => e = g) /\ g % Width = 0
    BY <1>2, <1>4, Sizes DEF Interval
<1>6. ~torn
    BY <1>1 DEF SweepInv, SweepOK
<1>7. /\ Len(row) < Width => mon' = "print" /\ UNCHANGED <<row, from, torn>>
      /\ ~(Len(row) < Width) => mon' = "test" /\ row' = <<>> /\ torn' = (torn \/ Mixed)
    BY <1>1 DEF EndOfWord
<1>8. mon' # "erase" /\ mon' # "off" /\ mon' # "find"
    BY <1>7
<1>9. CASE e < g
    <2>1. LineAt(from, Len(row) - 1, e)
        BY <1>1, <1>2, <1>9 DEF Position
    <2>2. /\ from % Width = 0 /\ e = from + (Len(row) - 1) /\ Len(row) - 1 < Width /\ index = e
          /\ \A i \in DOMAIN row : row[i] = Sample(from)
        BY <2>1 DEF LineAt
    <2>3. e \in 0 .. BUFD_MAX - 1 /\ e \in Nat /\ from \in Nat /\ from < g /\ g \in Nat
        <3>1. Len(row) >= 1
            BY <1>3, <1>4
        <3>2. QED BY <1>3, <1>9, <2>2, <3>1, Sizes
    <2>4. from + Width <= g
        BY <1>5, <2>2, <2>3, NextLine
    <2>5. PICK d \in 0 .. BUFD_MAX : d = e + 1
        BY <2>3, Sizes
    <2>6. d <= g /\ (d < g => index' = d) /\ ~complete'
        BY <1>1, <1>5, <1>9, <2>2, <2>3, <2>5, Sizes
    <2>7. ASSUME NEW i \in 0 .. BUFD_MAX - 1
          PROVE  IF d <= i /\ i < g THEN Waits(i)' ELSE IsDone(i)'
        <3>1. IF e <= i /\ i < g THEN Waits(i) ELSE IsDone(i)
            BY <1>2 DEF Interval
        <3>2. CASE i = e
            <4>1. Waits(i)
                BY <1>9, <2>3, <3>1, <3>2
            <4>2. i < mem_buf_ptr => printed[i] = 1
                BY <1>1, <2>2, <3>2, <4>1 DEF Waits
            <4>3. mem_buf'[i] = Erased
                BY <1>1, <1>3, <2>2, <3>2
            <4>4. IsDone(i)'
                BY <1>1, <4>2, <4>3 DEF IsDone
            <4>5. ~(d <= i)
                BY <2>3, <2>5, <3>2
            <4>6. QED BY <4>4, <4>5
        <3>3. CASE i # e
            <4>1. mem_buf'[i] = mem_buf[i]
                BY <1>1, <1>3, <2>2, <3>3, Sizes
            <4>2. Waits(i) => Waits(i)'
                BY <1>1, <1>8, <2>2, <3>3, <4>1 DEF Waits, Sample
            <4>3. IsDone(i) => IsDone(i)'
                BY <1>1, <4>1 DEF IsDone
            <4>4. d <= i <=> e <= i
                BY <2>3, <2>5, <3>3
            <4>5. QED BY <3>1, <4>2, <4>3, <4>4
        <3>4. QED BY <3>2, <3>3
    <2>8. Interval(d, g)'
        BY <1>1, <1>5, <2>6, <2>7 DEF Interval
    <2>9. CASE Len(row) < Width
        <3>1. mon' = "print" /\ UNCHANGED <<row, from, torn>>
            BY <1>7, <2>9
        <3>2. d < g /\ d = from + Len(row)
            BY <1>3, <2>2, <2>3, <2>4, <2>5, <2>9, Sizes
        <3>3. LineAt(from, Len(row), d)'
            <4>1. Sample(from)' = Sample(from)
                BY <1>1, <3>1 DEF Sample
            <4>2. QED BY <2>2, <2>6, <2>9, <3>1, <3>2, <4>1 DEF LineAt
        <3>4. Position(d, g)'
            BY <1>1, <1>4, <3>1, <3>2, <3>3 DEF Position
        <3>5. QED BY <1>6, <2>8, <3>1, <3>4, Swept
    <2>10. CASE ~(Len(row) < Width)
        <3>1. ~Mixed
            <4>1. 1 \in DOMAIN row
                BY <1>3, <1>4
            <4>2. QED BY <2>2, <4>1 DEF Mixed
        <3>2. mon' = "test" /\ row' = <<>> /\ ~torn'
            BY <1>6, <1>7, <2>10, <3>1
        <3>3. d = from + Width
            <4>1. Len(row) \in Nat /\ Width \in Nat /\ ~(Len(row) < Width) /\ Len(row) - 1 < Width
                BY <1>3, <2>2, <2>10, Sizes
            <4>2. Len(row) = Width
                BY <4>1
            <4>3. e = from + (Len(row) - 1) /\ d = e + 1 /\ from \in Nat /\ e \in Nat
                BY <2>2, <2>3, <2>5
            <4>4. QED BY <4>1, <4>2, <4>3
        <3>4. d % Width = 0
            BY <2>2, <2>3, <3>3, LineEnd
        <3>5. mem_buf_ptr' % Width = 0
            BY <1>1, <1>4
        <3>6. Position(d, g)'
            BY <2>6, <3>2, <3>4, <3>5 DEF Position
        <3>7. QED BY <2>8, <3>2, <3>6, Swept
    <2>11. QED BY <2>9, <2>10
<1>10. CASE ~(e < g)
    <2>1. from = BUFD_MAX
        BY <1>1, <1>2, <1>10 DEF Position
    <2>2. ASSUME NEW i \in 0 .. BUFD_MAX - 1
          PROVE  ~(e <= i /\ i < g) /\ IsDone(i)'
        <3>1. ~(e <= i /\ i < g)
            BY <1>10, Sizes
        <3>2. IsDone(i)
            BY <1>2, <3>1 DEF Interval
        <3>3. mem_buf'[i] = Erased
            BY <1>1, <1>3, <3>2, Sizes DEF IsDone
        <3>4. QED BY <1>1, <3>1, <3>2, <3>3 DEF IsDone
    <2>3. Interval(e, g)'
        BY <1>1, <1>5, <2>2 DEF Interval
    <2>4. e % Width = 0
        BY <1>5, <1>10, Sizes
    <2>5. ~Mixed
        BY <2>1, Sizes DEF Mixed
    <2>6. Position(e, g)' /\ ~torn'
        <3>1. CASE Len(row) < Width
            BY <1>1, <1>4, <1>6, <1>7, <1>10, <2>1, <3>1 DEF Position
        <3>2. CASE ~(Len(row) < Width)
            BY <1>1, <1>4, <1>6, <1>7, <1>10, <2>4, <2>5, <3>2 DEF Position
        <3>3. QED BY <3>1, <3>2
    <2>7. QED BY <2>3, <2>6, Swept
<1>11. QED BY <1>9, <1>10

\* The steps of the kernel that write no sample change nothing that the
\* monitor sees.
LEMMA SweepSame ==
    ASSUME SweepInv, UNCHANGED <<mem_buf_ptr, bufVars>>
    PROVE  SweepOK'
<1>1. UNCHANGED <<mem_buf_ptr, mem_buf, mon, index, row, from, printed, torn, overlap, complete>>
    BY DEF bufVars
<1>2. CASE overlap
    BY <1>1, <1>2 DEF SweepOK
<1>3. CASE ~overlap
    <2>1. PICK e \in 0 .. BUFD_MAX, g \in 0 .. BUFD_MAX : Interval(e, g) /\ Position(e, g)
        BY <1>3 DEF SweepInv, SweepOK
    <2>2. ~torn'
        BY <1>1, <1>3 DEF SweepInv, SweepOK
    <2>3. Interval(e, g)'
        BY <1>1, <2>1 DEF Interval, Waits, IsDone, Sample
    <2>4. Position(e, g)'
        BY <1>1, <2>1 DEF Position, LineAt, Sample
    <2>5. QED BY <2>2, <2>3, <2>4, Swept
<1>4. QED BY <1>2, <1>3

\* The types of the line and of the history variables.
LEMMA LineTypeStep ==
    ASSUME OnceInv, LineTypeOK, [MonitorNext]_<<vars, bufVars>>
    PROVE  LineTypeOK'
<1>1. /\ row \in Seq(Int) /\ from \in 0 .. BUFD_MAX /\ index \in 0 .. BUFD_MAX
      /\ mem_buf \in [0 .. Words - 1 -> Int] /\ 0 \in 0 .. BUFD_MAX /\ index \in 0 .. Words - 1
    BY Sizes DEF LineTypeOK, OnceInv, BufTypeOK
<1>2. torn \in BOOLEAN /\ overlap \in BOOLEAN /\ complete \in BOOLEAN
    BY DEF LineTypeOK
<1>3. CASE KernelStep
    <2>1. UNCHANGED <<row, from, torn>>
        BY <1>3 DEF KernelStep
    <2>2. overlap' \in BOOLEAN /\ complete' \in BOOLEAN
        BY <1>2, <1>3, Zenon DEF KernelStep
    <2>3. QED BY <1>1, <1>2, <2>1, <2>2 DEF LineTypeOK
<1>4. CASE buf_init
    <2>1. row' = <<>> /\ UNCHANGED <<from, torn, complete>>
        BY <1>4 DEF buf_init
    <2>2. overlap' \in BOOLEAN
        BY <1>2, <1>4, Zenon DEF buf_init
    <2>3. QED BY <1>1, <1>2, <2>1, <2>2 DEF LineTypeOK
<1>5. CASE Find
    <2>1. UNCHANGED <<row, from, torn, overlap, complete>>
        BY <1>5 DEF Find
    <2>2. QED BY <1>1, <1>2, <2>1 DEF LineTypeOK
<1>6. CASE Test
    <2>1. UNCHANGED <<row, from, torn, overlap>>
        BY <1>6 DEF Test
    <2>2. complete' \in BOOLEAN
        BY <1>2, <1>6, Zenon DEF Test
    <2>3. QED BY <1>1, <1>2, <2>1, <2>2 DEF LineTypeOK
<1>7. CASE PrintWord
    <2>1. /\ row' = Append(row, mem_buf[index]) /\ from' = IF row = <<>> THEN index ELSE from
          /\ UNCHANGED <<torn, overlap, complete>>
        BY <1>7 DEF PrintWord
    <2>2. row' \in Seq(Int) /\ from' \in 0 .. BUFD_MAX
        BY <1>1, <2>1
    <2>3. QED BY <1>2, <2>1, <2>2 DEF LineTypeOK
<1>8. CASE EraseWord
    <2>1. EndOfWord /\ UNCHANGED <<overlap, complete>>
        BY <1>8 DEF EraseWord
    <2>2. row' \in Seq(Int) /\ from' \in 0 .. BUFD_MAX
        <3>1. (row' = row /\ from' = from) \/ (row' = <<>> /\ from' = 0)
            BY <2>1, Zenon DEF EndOfWord
        <3>2. CASE row' = row /\ from' = from
            BY <1>1, <3>2
        <3>3. CASE row' = <<>> /\ from' = 0
            BY <1>1, <3>3
        <3>4. QED BY <3>1, <3>2, <3>3
    <2>3. torn' \in BOOLEAN
        BY <1>2, <2>1, Zenon DEF EndOfWord
    <2>4. QED BY <1>2, <2>1, <2>2, <2>3 DEF LineTypeOK
<1>9. CASE UNCHANGED <<vars, bufVars>>
    BY <1>1, <1>2, <1>9 DEF bufVars, LineTypeOK
<1>10. QED
    BY <1>3, <1>4, <1>5, <1>6, <1>7, <1>8, <1>9 DEF MonitorNext, main

\* Every step of the work and of the monitor keeps SweepInv.
LEMMA SweepStep ==
    ASSUME SweepInv, [MonitorNext]_<<vars, bufVars>>
    PROVE  SweepInv'
<1>1. OnceInv' /\ LineTypeOK'
    BY OnceStep, LineTypeStep DEF SweepInv
<1>2. SweepOK'
    <2>1. CASE overlap'
        BY <2>1 DEF SweepOK
    <2>2. CASE ~overlap'
        <3>1. CASE KernelStep /\ mem_buf_ptr' # mem_buf_ptr
            BY <2>2, <3>1, SweepWrite
        <3>2. CASE KernelStep /\ mem_buf_ptr' = mem_buf_ptr
            BY <3>2, SweepSame DEF KernelStep, bufVars
        <3>3. CASE UNCHANGED <<vars, bufVars>>
            BY <3>3, SweepSame DEF vars
        <3>4. CASE buf_init
            BY <2>2, <3>4, SweepStart
        <3>5. CASE Find
            BY <2>2, <3>5, SweepFind
        <3>6. CASE Test
            BY <2>2, <3>6, SweepTest
        <3>7. CASE PrintWord
            BY <2>2, <3>7, SweepPrint
        <3>8. CASE EraseWord
            BY <2>2, <3>8, SweepErase
        <3>9. QED
            BY <3>1, <3>2, <3>3, <3>4, <3>5, <3>6, <3>7, <3>8 DEF MonitorNext, main
    <2>3. QED BY <2>1, <2>2
<1>3. QED BY <1>1, <1>2 DEF SweepInv

\* At first all of the monitor's part of the buffer waits.
LEMMA SweepInit ==
    ASSUME MonitorInit
    PROVE  SweepInv
<1>1. OnceInv
    BY TypeInit, ProfilerAssumption, MonitorAssumption
    DEF MonitorInit, Init, OnceInv, BufTypeOK, OnceOK, OnceAt
<1>2. LineTypeOK
    <2>1. row = <<>> /\ from = 0
        BY DEF MonitorInit
    <2>2. row \in Seq(Int) /\ from \in 0 .. BUFD_MAX
        BY <2>1, Sizes
    <2>3. torn \in BOOLEAN /\ overlap \in BOOLEAN /\ complete \in BOOLEAN
        BY Zenon DEF MonitorInit
    <2>4. QED BY <2>2, <2>3 DEF LineTypeOK
<1>3. /\ mem_buf_ptr = 0 /\ mem_buf = [i \in 0 .. Words - 1 |-> 0] /\ mon = "off"
      /\ row = <<>> /\ ~complete /\ ~torn
    BY DEF MonitorInit, Init
<1>4. \A i \in 0 .. BUFD_MAX - 1 : Waits(i)
    BY <1>3, Sizes DEF Waits, Sample
<1>5. Interval(0, BUFD_MAX)
    BY <1>3, <1>4, Sizes DEF Interval
<1>6. Position(0, BUFD_MAX)
    BY <1>3, Sizes DEF Position
<1>7. 0 \in 0 .. BUFD_MAX /\ BUFD_MAX \in 0 .. BUFD_MAX
    BY Sizes
<1>8. SweepOK
    BY <1>3, <1>5, <1>6, <1>7 DEF SweepOK
<1>9. QED BY <1>1, <1>2, <1>8 DEF SweepInv

\* A monitor that no sample overtakes, however often it is started, has printed
\* every word of the samples in its part of the buffer when it ends: it finds
\* the words that wait in one piece and goes through them to the end.
THEOREM AllPrinted == MonitorSpec => []PrintedAll
<1>1. MonitorInit => SweepInv
    BY SweepInit
<1>2. SweepInv /\ [MonitorNext]_<<vars, bufVars>> => SweepInv'
    BY SweepStep
<1>3. SweepInv => PrintedAll
    <2> SUFFICES ASSUME SweepInv, ~overlap, complete, NEW i \in 0 .. BUFD_MAX - 1,
                        i < mem_buf_ptr
                 PROVE  printed[i] = 1
        BY DEF PrintedAll
    <2>1. PICK e \in 0 .. BUFD_MAX, g \in 0 .. BUFD_MAX : Interval(e, g)
        BY DEF SweepInv, SweepOK
    <2>2. e = g
        BY <2>1 DEF Interval
    <2>3. ~(e <= i /\ i < g)
        BY <2>2, Sizes
    <2>4. IsDone(i)
        BY <2>1, <2>3 DEF Interval
    <2>5. QED BY <2>4 DEF IsDone
<1>4. QED BY <1>1, <1>2, <1>3, PTL DEF MonitorSpec

\* Nor does it mix two samples in a line: a line begins where a sample begins.
THEOREM LinesAreWhole == MonitorSpec => []LinesWhole
<1>1. MonitorInit => SweepInv
    BY SweepInit
<1>2. SweepInv /\ [MonitorNext]_<<vars, bufVars>> => SweepInv'
    BY SweepStep
<1>3. SweepInv => LinesWhole
    BY DEF SweepInv, SweepOK, LinesWhole
<1>4. QED BY <1>1, <1>2, <1>3, PTL DEF MonitorSpec
=============================================================================
