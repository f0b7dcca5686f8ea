------------------------------ MODULE Monitor ------------------------------
(***************************************************************************)
(* monitor.c maps the buffer of mp3.c and prints what it finds there, rows *)
(* of one sample, while the work of Profiler may go on writing.  There is  *)
(* no lock between the two: a step of the monitor is one access to the     *)
(* buffer.  One monitor runs at a time; it may be started again.           *)
(*                                                                         *)
(* A word of the buffer is 0 as mp_init leaves it, Erased, or the number   *)
(* of the sample it belongs to.                                            *)
(***************************************************************************)
EXTENDS Profiler, Integers, Sequences

CONSTANT BUFD_MAX     \* the words that the monitor looks at, 48000

ASSUME MonitorAssumption == BUFD_MAX \in 1 .. Words - 1 /\ BUFD_MAX % Width = 0

Erased == -1

VARIABLES mem_buf,    \* mem_buf[i], shared by dev_mmap
          mon,        \* where the monitor is; "off": it does not run
          index,      \* index of main
          row,        \* the words printed in the current line
          from,       \* history: the index of the first of them
          printed,    \* history: how often word i of the samples was printed
          torn,       \* history: a line from below BUFD_MAX mixed words of
                      \* different samples
          overlap,    \* history: a sample was written while the monitor ran
          complete    \* history: the monitor ran to its end after the last sample

bufVars == <<mem_buf, mon, index, row, from, printed, torn, overlap, complete>>

MonitorInit ==
    /\ Init
    /\ mem_buf = [i \in 0 .. Words - 1 |-> 0]
    /\ mon = "off" /\ index = 0 /\ row = <<>> /\ from = 0
    /\ printed = [i \in 0 .. Words - 1 |-> 0]
    /\ torn = FALSE /\ overlap = FALSE /\ complete = FALSE
-----------------------------------------------------------------------------
\* A step of mp3.c.  An open device keeps the module loaded.
KernelStep ==
    /\ Next
    /\ ExitBegin => mon = "off"
    /\ \/ /\ mem_buf_ptr' = mem_buf_ptr
          /\ UNCHANGED <<mem_buf, overlap, complete>>
       \/ /\ mem_buf_ptr' # mem_buf_ptr
          /\ mem_buf' = [mem_buf EXCEPT ![mem_buf_ptr] = mem_buf_ptr \div Width + 1]
          /\ overlap' = (overlap \/ mon # "off")
          /\ complete' = FALSE
    /\ UNCHANGED <<mon, index, row, from, printed, torn>>

\* buf_init and dev_mmap.
buf_init ==
    /\ mon = "off" /\ pc[RMMOD] = "out"
    /\ mon' = "find" /\ index' = 0 /\ row' = <<>>
    /\ overlap' = (overlap \/ mem_buf_ptr % Width # 0)
    /\ UNCHANGED <<vars, mem_buf, from, printed, torn, complete>>

\* Mutant: the loop skips what is not erased.
FindInverted ==
    /\ mon = "find"
    /\ IF index < BUFD_MAX /\ mem_buf[index] # Erased
       THEN index' = index + 1 /\ UNCHANGED mon
       ELSE mon' = "test" /\ UNCHANGED index
    /\ UNCHANGED <<vars, mem_buf, row, from, printed, torn, overlap, complete>>

\* The first loop of main.
Find ==
    /\ mon = "find"
    /\ IF index < BUFD_MAX /\ mem_buf[index] = Erased
       THEN index' = index + 1 /\ UNCHANGED mon
       ELSE mon' = "test" /\ UNCHANGED index
    /\ UNCHANGED <<vars, mem_buf, row, from, printed, torn, overlap, complete>>

\* "while(buf[index] != -1)", also for index = BUFD_MAX, and buf_exit.
Test ==
    /\ mon = "test"
    /\ mon' = IF mem_buf[index] = Erased THEN "off" ELSE "print"
    /\ complete' = (complete \/ mon' = "off")
    /\ UNCHANGED <<vars, mem_buf, index, row, from, printed, torn, overlap>>

PrintWord ==
    /\ mon = "print"
    /\ row' = Append(row, mem_buf[index])
    /\ from' = IF row = <<>> THEN index ELSE from
    /\ printed' = IF mem_buf[index] > 0 THEN [printed EXCEPT ![index] = @ + 1] ELSE printed
    /\ mon' = "erase"
    /\ UNCHANGED <<vars, mem_buf, index, torn, overlap, complete>>

Mixed == from < BUFD_MAX /\ \E i \in DOMAIN row : row[i] # row[1]

\* Mutant: a line has one word too many.
EndOfWordLate ==
    IF Len(row) <= Width
    THEN mon' = "print" /\ UNCHANGED <<row, from, torn>>
    ELSE /\ mon' = "test" /\ row' = <<>> /\ from' = 0
         /\ torn' = (torn \/ Mixed)

\* A line ends after Width words.
EndOfWord ==
    IF Len(row) < Width
    THEN mon' = "print" /\ UNCHANGED <<row, from, torn>>
    ELSE /\ mon' = "test" /\ row' = <<>> /\ from' = 0
         /\ torn' = (torn \/ Mixed)

\* Mutant: the word is left where it is.
EraseWordNot ==
    /\ mon = "erase"
    /\ index' = IF index + 1 >= BUFD_MAX THEN 0 ELSE index + 1
    /\ EndOfWord
    /\ UNCHANGED <<vars, mem_buf, printed, overlap, complete>>

\* The word is erased and the index moves.
EraseWord ==
    /\ mon = "erase"
    /\ mem_buf' = [mem_buf EXCEPT ![index] = Erased]
    /\ index' = IF index + 1 >= BUFD_MAX THEN 0 ELSE index + 1
    /\ EndOfWord
    /\ UNCHANGED <<vars, printed, overlap, complete>>

main == buf_init \/ Find \/ Test \/ PrintWord \/ EraseWord
-----------------------------------------------------------------------------
MonitorNext == KernelStep \/ main

MonitorSpec == MonitorInit /\ [][MonitorNext]_<<vars, bufVars>>

\* The monitor, once started, goes on.
MonitorFairSpec ==
    /\ MonitorSpec /\ Fairness
    /\ WF_<<vars, bufVars>>(Find \/ Test \/ PrintWord \/ EraseWord)
-----------------------------------------------------------------------------
\* No sample is printed twice, however the monitor and the work interleave and
\* however often the monitor is started.
PrintedOnce == \A i \in DOMAIN printed : printed[i] <= 1

\* If the monitor never ran while a sample was written, it printed every word
\* of the samples in its part of the buffer.
PrintedAll ==
    ~overlap /\ complete =>
        \A i \in 0 .. BUFD_MAX - 1 : i < mem_buf_ptr => printed[i] = 1

\* Nor did it mix samples in a line, except in the one that it makes of word
\* BUFD_MAX and erased words when it finds its part of the buffer erased.
LinesWhole == ~overlap => ~torn

\* The monitor ends, although it goes round in the buffer.
MonitorEnds == (mon # "off") ~> (mon = "off")
=============================================================================
