------------------------------ MODULE ClibPure ------------------------------
(***************************************************************************)
(* The functions of the C library that keep no state of their own but      *)
(* errno and the pointer of strtok: sorting and searching, numbers, memory *)
(* and strings.                                                            *)
(***************************************************************************)
EXTENDS Integers, Sequences, FiniteSets, SequencesExt, FiniteSetsExt

-----------------------------------------------------------------------------
(***************************************************************************)
(* qsort and bsearch of the in-OS C library (user/libs/clib/src/qsort.c    *)
(* and bsearch.c).                                                         *)
(*                                                                         *)
(* qsort keeps a fixed array of pending ranges instead of recursing, tail  *)
(* loops on the larger part of a partition, and falls back on insertion    *)
(* sort for short ranges and when the array of ranges is full.  One step   *)
(* of the model is one iteration of the inner loop; the elements are their *)
(* keys, and offsets are 0-based as in the code.  Once the array is        *)
(* sorted, bsearch looks for a key, one probe a step.                      *)
(***************************************************************************)

CONSTANTS
  SortInputs,   \* the arrays qsort is called with
  SearchKeys,   \* the keys bsearch is asked for
  Threshold,    \* INSERT_SORT_THRESHOLD
  StackDepth    \* QSORT_STACK_DEPTH

VARIABLES
  original,     \* the array as the caller passed it
  arr,          \* the array now
  frames,       \* stack[0 .. sp-1]
  range,        \* the range of the inner loop, or NoRange
  probe         \* bsearch: [key, lo, hi, at]

sortVars == <<original, arr, frames, range, probe>>

NoRange == [base |-> 0, n |-> 0]

NoProbe == [key |-> -1, lo |-> 0, hi |-> 0, at |-> -1]

SortInit ==
  /\ original \in SortInputs
  /\ arr = original
  /\ frames = IF Len(arr) < 2 THEN <<>> ELSE <<[base |-> 0, n |-> Len(arr)]>>
  /\ range = NoRange
  /\ probe = NoProbe

-----------------------------------------------------------------------------
(* The helpers of qsort, on a 0-based array *)

Item(s, i) == s[i + 1]

SwapBytes(s, i, j) == [s EXCEPT ![i + 1] = s[j + 1], ![j + 1] = s[i + 1]]

OrderPair(s, i, j) == IF Item(s, i) > Item(s, j) THEN SwapBytes(s, i, j) ELSE s

(* The inner loop stops at the first pair in order; below it the prefix is *)
(* already sorted, so comparing on would swap nothing.                     *)
Sink(s, base, i) ==
  FoldLeft(LAMBDA t, k : OrderPair(t, base + i - k, base + i - k + 1), s,
           [k \in 1..i |-> k])

InsertionSort(s, base, n) ==
  FoldLeft(LAMBDA t, i : Sink(t, base, i), s, [i \in 1..(n - 1) |-> i])

MedianOfThreeToHigh(s, lo, mid, hi) ==
  SwapBytes(OrderPair(OrderPair(OrderPair(s, lo, mid), lo, hi), mid, hi), mid, hi)

(* The scan that leaves out the element next to the pivot.                 *)
LomutoShort(s, base, n) ==
  FoldLeft(LAMBDA p, i :
             IF Item(p.arr, base + i) < Item(p.arr, base + n - 1)
             THEN [arr |-> SwapBytes(p.arr, base + i, base + p.store), store |-> p.store + 1]
             ELSE p,
           [arr |-> s, store |-> 0], [i \in 1..(n - 2) |-> i - 1])

Lomuto(s, base, n) ==
  FoldLeft(LAMBDA p, i :
             IF Item(p.arr, base + i) < Item(p.arr, base + n - 1)
             THEN [arr |-> SwapBytes(p.arr, base + i, base + p.store), store |-> p.store + 1]
             ELSE p,
           [arr |-> s, store |-> 0], [i \in 1..(n - 1) |-> i - 1])

PivotPlaced(p, base, n) ==
  [arr |-> SwapBytes(p.arr, base + p.store, base + n - 1), store |-> p.store]

Partitioned(s, base, n) ==
  PivotPlaced(Lomuto(MedianOfThreeToHigh(s, base, base + n \div 2, base + n - 1), base, n),
              base, n)

-----------------------------------------------------------------------------
(* The loops of qsort *)

PopFrame ==
  /\ range = NoRange /\ frames # <<>>
  /\ range' = Last(frames)
  /\ frames' = Front(frames)
  /\ UNCHANGED <<original, arr, probe>>

SortShortRange ==
  /\ range # NoRange /\ range.n < Threshold
  /\ arr' = InsertionSort(arr, range.base, range.n)
  /\ range' = NoRange
  /\ UNCHANGED <<original, frames, probe>>

(* The smaller part is pushed and the larger one goes on; with no room for *)
(* the push the whole range is sorted by insertion.                        *)
PushAndContinue(s, smaller, larger) ==
  IF smaller.n > 1 /\ Len(frames) >= StackDepth
  THEN /\ arr' = InsertionSort(s, range.base, range.n)
       /\ range' = NoRange
       /\ UNCHANGED frames
  ELSE /\ arr' = s
       /\ frames' = IF smaller.n > 1 THEN Append(frames, smaller) ELSE frames
       /\ range' = IF larger.n > 1 THEN larger ELSE NoRange

SplitAt(p, left, right) ==
  IF left.n < right.n THEN PushAndContinue(p.arr, left, right)
                      ELSE PushAndContinue(p.arr, right, left)

SplitBy(p) ==
  SplitAt(p, [base |-> range.base, n |-> p.store],
             [base |-> range.base + p.store + 1, n |-> range.n - p.store - 1])

SplitRange ==
  /\ range # NoRange /\ range.n >= Threshold
  /\ SplitBy(Partitioned(arr, range.base, range.n))
  /\ UNCHANGED <<original, probe>>

-----------------------------------------------------------------------------
(* bsearch, over the sorted array *)

Sorted == range = NoRange /\ frames = <<>>

StartSearch(key) ==
  /\ Sorted /\ probe = NoProbe
  /\ probe' = [key |-> key, lo |-> 0, hi |-> Len(arr), at |-> -1]
  /\ UNCHANGED <<original, arr, frames, range>>

ProbeAt(mid) ==
  probe' = IF probe.key < Item(arr, mid) THEN [probe EXCEPT !.hi = mid]
           ELSE IF probe.key > Item(arr, mid) THEN [probe EXCEPT !.lo = mid + 1]
           ELSE [probe EXCEPT !.at = mid]

Probe ==
  /\ probe.lo < probe.hi /\ probe.at < 0
  /\ ProbeAt(probe.lo + (probe.hi - probe.lo) \div 2)
  /\ UNCHANGED <<original, arr, frames, range>>

SortNext ==
  \/ PopFrame
  \/ SortShortRange
  \/ SplitRange
  \/ \E key \in SearchKeys : StartSearch(key)
  \/ Probe

-----------------------------------------------------------------------------
(* Properties *)

Positions == 0..(Len(arr) - 1)

Pending == {frames[f] : f \in 1..Len(frames)} \cup ({range} \ {NoRange})

Covers(r, i) == r.base <= i /\ i < r.base + r.n

(* qsort only ever permutes the caller's elements; the pending ranges are  *)
(* disjoint, and an element outside all of them is already where a sorted  *)
(* array has it, so that the array is sorted when no range is left,        *)
(* however the partitions fell and whether or not the stack of ranges      *)
(* (QSORT_STACK_DEPTH) overflowed.  bsearch never leaves behind a key that *)
(* is in the array, and answers with an element equal to the key.          *)
SortsAndFinds ==
  /\ \A i \in Positions : Cardinality({j \in Positions : Item(arr, j) = Item(arr, i)})
                          = Cardinality({j \in Positions : Item(original, j) = Item(arr, i)})
  /\ \A r, q \in Pending : r # q => \A i \in Positions : ~(Covers(r, i) /\ Covers(q, i))
  /\ \A i, j \in Positions :
       i < j /\ (\A r \in Pending : ~(Covers(r, i) /\ Covers(r, j)))
         => Item(arr, i) <= Item(arr, j)
  /\ probe.key >= 0 =>
       /\ \A i \in Positions : Item(arr, i) = probe.key
            => (\E j \in Positions : Item(arr, j) = probe.key /\ probe.lo <= j /\ j < probe.hi)
       /\ probe.at >= 0 => Item(arr, probe.at) = probe.key

-----------------------------------------------------------------------------
(***************************************************************************)
(* The number parsers and the memory and string family of the in-OS C      *)
(* library (user/libs/clib/src/stdlib.c and string.c).                     *)
(*                                                                         *)
(* A parser gets a text, a sequence of characters, and answers a value, an *)
(* end position and what becomes of errno; its integers have the widths    *)
(* UlongMax, UllMax and IntMax stand for.  The memory functions work on    *)
(* one small memory, byte by byte and in the order of the code's loops.    *)
(* A behaviour is one call from any state a caller can set up, or two      *)
(* tokenizers (strtok with its static pointer, strtok_r with the caller's) *)
(* taking turns on two strings of the same memory.                         *)
(***************************************************************************)

CONSTANTS
  NumTexts,    \* the texts given to the parsers
  NumBases,    \* the bases asked for
  UlongMax,    \* ULONG_MAX; LONG_MAX is half of it
  UllMax,      \* ULLONG_MAX
  IntMax,      \* INT_MAX
  MemSize,     \* cells of the memory
  MemBytes,    \* values of a cell, 0 (NUL) among them
  Delim        \* the delimiters of strtok

VARIABLES
  errno,       \* the library's errno
  mem,         \* the caller's memory
  call,        \* the call made: [fn, args, ret, old (errno), was (memory)]
  toks         \* the two tokenizers: [text, save, handed]

ctextVars == <<errno, mem, call, toks>>

NULL == -1

Addresses == 0..(MemSize - 1)

NoCall == [fn |-> "none", args |-> <<>>, ret |-> <<>>, old |-> "", was |-> <<>>]

-----------------------------------------------------------------------------
(* strtol and its family *)

DigitChars == <<"0", "1", "2", "3", "4", "5", "6", "7", "8", "9",
                "a", "b", "c", "d", "e", "f", "x">>

CharValue(c) ==
  IF c = "x" THEN 33 ELSE CHOOSE v \in 0..15 : DigitChars[v + 1] = c

CharAt(s, i) == IF i <= Len(s) THEN s[i] ELSE "NUL"

s_digit_value(c, base) ==
  IF c \notin Range(DigitChars) THEN -1
  ELSE IF CharValue(c) >= base THEN -1
  ELSE CharValue(c)

HexPrefixAt(s, i) ==
  /\ CharAt(s, i) = "0" /\ CharAt(s, i + 1) = "x"
  /\ s_digit_value(CharAt(s, i + 2), 16) >= 0

SpacesEnd(s) == Min({i \in 1..(Len(s) + 1) : CharAt(s, i) # " "})

SignEnd(s, i) == IF CharAt(s, i) \in {"+", "-"} THEN i + 1 ELSE i

BasePicked(s, i, base) ==
  IF base # 0 THEN base
  ELSE IF HexPrefixAt(s, i) THEN 16
  ELSE IF CharAt(s, i) = "0" THEN 8
  ELSE 10

PrefixEnd(s, i, base) == IF base \in {0, 16} /\ HexPrefixAt(s, i) THEN i + 2 ELSE i

(* s_strip_prefix: where the digits start, the base and the sign.          *)
s_strip_prefix(s, base) ==
  [at   |-> PrefixEnd(s, SignEnd(s, SpacesEnd(s)), base),
   base |-> BasePicked(s, SignEnd(s, SpacesEnd(s)), base),
   neg  |-> CharAt(s, SpacesEnd(s)) = "-"]

RunEnd(s, i, base) == Min({j \in i..(Len(s) + 1) : s_digit_value(CharAt(s, j), base) < 0})

(* The digit loop with the guard left out: the accumulator wraps.          *)
AccumulateWrap(a, v, base, max) ==
  [a EXCEPT !.mag = (a.mag * base + v) % (max + 1)]

Accumulate(a, v, base, max) ==
  IF a.mag > max \div base \/ (a.mag = max \div base /\ v > max % base)
  THEN [a EXCEPT !.mag = max, !.over = TRUE]
  ELSE [a EXCEPT !.mag = @ * base + v]

ParsedRun(s, i, e, base, max) ==
  FoldLeft(LAMBDA a, c : Accumulate(a, s_digit_value(c, base), base, max),
           [mag |-> 0, over |-> FALSE, any |-> e > i, end |-> e], SubSeq(s, i, e - 1))

s_parse_digits(s, p) == ParsedRun(s, p.at, RunEnd(s, p.at, p.base), p.base, UlongMax)

s_parse_digits_ull(s, p) == ParsedRun(s, p.at, RunEnd(s, p.at, p.base), p.base, UllMax)

ParsedNumber(value, end, err) == [value |-> value, end |-> end, err |-> err]

NotParsed(err) == ParsedNumber(0, 1, err)

BadBase(base) == base # 0 /\ (base < 2 \/ base > 36)

(* A magnitude and a sign as a signed value of the width max stands for.   *)
SignedClamp(d, neg, max) ==
  IF ~d.any THEN NotParsed("none")
  ELSE IF ~neg THEN IF d.over \/ d.mag > max \div 2 THEN ParsedNumber(max \div 2, d.end, "ERANGE")
                                                    ELSE ParsedNumber(d.mag, d.end, "none")
  ELSE IF d.over \/ d.mag > max \div 2 + 1 THEN ParsedNumber(-(max \div 2) - 1, d.end, "ERANGE")
  ELSE ParsedNumber(-d.mag, d.end, "none")

UnsignedWrap(d, neg, max) ==
  IF ~d.any THEN NotParsed("none")
  ELSE IF d.over THEN ParsedNumber(max, d.end, "ERANGE")
  ELSE ParsedNumber(IF neg THEN (max + 1 - d.mag) % (max + 1) ELSE d.mag, d.end, "none")

strtol(s, base) ==
  IF BadBase(base) THEN NotParsed("EINVAL")
  ELSE SignedClamp(s_parse_digits(s, s_strip_prefix(s, base)), s_strip_prefix(s, base).neg, UlongMax)

strtoul(s, base) ==
  IF BadBase(base) THEN NotParsed("EINVAL")
  ELSE UnsignedWrap(s_parse_digits(s, s_strip_prefix(s, base)), s_strip_prefix(s, base).neg, UlongMax)

strtoll(s, base) ==
  IF BadBase(base) THEN NotParsed("EINVAL")
  ELSE SignedClamp(s_parse_digits_ull(s, s_strip_prefix(s, base)), s_strip_prefix(s, base).neg, UllMax)

strtoull(s, base) ==
  IF BadBase(base) THEN NotParsed("EINVAL")
  ELSE UnsignedWrap(s_parse_digits_ull(s, s_strip_prefix(s, base)), s_strip_prefix(s, base).neg, UllMax)

Narrowed(v) == IF v > IntMax THEN IntMax ELSE IF v < -IntMax - 1 THEN -IntMax - 1 ELSE v

atoi(s) == [strtol(s, 10) EXCEPT !.value = Narrowed(@)]

-----------------------------------------------------------------------------
(* string.c; a string is the cells from its address up to the first NUL *)

Terminated(m, a) == \E i \in a..(MemSize - 1) : m[i] = 0

FitsIn(a, n) == a + n <= MemSize

Apart(a, b, n) == a + n <= b \/ b + n <= a

Up(n) == [k \in 1..n |-> k - 1]

Down(n) == [k \in 1..n |-> n - k]

Copied(m, d, s, order) == FoldLeft(LAMBDA t, k : [t EXCEPT ![d + k] = t[s + k]], m, order)

Filled(m, d, n, v) == [i \in DOMAIN m |-> IF d <= i /\ i < d + n THEN v ELSE m[i]]

memcpy(m, d, s, n) == Copied(m, d, s, Up(n))

(* A memmove that always copies forwards.                                  *)
memmoveForward(m, d, s, n) == Copied(m, d, s, Up(n))

memmove(m, d, s, n) ==
  IF d = s \/ n = 0 THEN m
  ELSE IF d < s \/ d - s >= n THEN Copied(m, d, s, Up(n))
  ELSE Copied(m, d, s, Down(n))

memset(m, d, c, n) == Filled(m, d, n, c)

FirstOr(S, other) == IF S = {} THEN other ELSE Min(S)

DifferenceAt(m, a, b, i) == m[a + i] - m[b + i]

memcmp(m, a, b, n) ==
  IF \A i \in 0..(n - 1) : m[a + i] = m[b + i] THEN 0
  ELSE DifferenceAt(m, a, b, Min({i \in 0..(n - 1) : m[a + i] # m[b + i]}))

memchr(m, s, c, n) == FirstOr({i \in s..(s + n - 1) : m[i] = c}, NULL)

strlen(m, s) == Min({i \in 0..(MemSize - 1 - s) : m[s + i] = 0})

strnlen(m, s, max) == Min({i \in 0..max : i = max \/ m[s + i] = 0})

Shorter(m, a, b) == Min({strlen(m, a), strlen(m, b)})

(* The first index below n where two strings differ or both end, or n.     *)
StopAt(m, a, b, n) ==
  FirstOr({i \in 0..Min({n - 1, Shorter(m, a, b)}) : m[a + i] # m[b + i] \/ m[a + i] = 0}, n)

strcmp(m, a, b) == DifferenceAt(m, a, b, StopAt(m, a, b, MemSize))

strncmp(m, a, b, n) ==
  IF StopAt(m, a, b, n) = n THEN 0 ELSE DifferenceAt(m, a, b, StopAt(m, a, b, n))

strcpy(m, d, s) == Copied(m, d, s, Up(strlen(m, s) + 1))

strncpy(m, d, s, n) ==
  Filled(Copied(m, d, s, Up(strnlen(m, s, n))), d + strnlen(m, s, n), n - strnlen(m, s, n), 0)

strcat(m, d, s) == strcpy(m, d + strlen(m, d), s)

strncat(m, d, s, n) ==
  Filled(Copied(m, d + strlen(m, d), s, Up(strnlen(m, s, n))),
         d + strlen(m, d) + strnlen(m, s, n), 1, 0)

InString(m, s) == s..(s + strlen(m, s))

strchr(m, s, c) == FirstOr({i \in InString(m, s) : m[i] = c}, NULL)

strrchr(m, s, c) ==
  IF \A i \in InString(m, s) : m[i] # c THEN NULL ELSE Max({i \in InString(m, s) : m[i] = c})

MatchEnd(m, h, n) == StopAt(m, n, h, MemSize)

(* The loop ends where the needle is found or the haystack runs out.       *)
strstrFrom(m, n, stop) ==
  IF stop = NULL \/ m[n + MatchEnd(m, stop, n)] # 0 THEN NULL ELSE stop

strstr(m, h, n) ==
  IF m[n] = 0 THEN h
  ELSE strstrFrom(m, n, FirstOr({i \in h..(h + strlen(m, h) - 1) :
                                   m[n + MatchEnd(m, i, n)] = 0 \/ m[i + MatchEnd(m, i, n)] = 0}, NULL))

s_in_set(m, c, set) == \E i \in set..(set + strlen(m, set) - 1) : m[i] = c

strspn(m, s, set) ==
  Min({i \in 0..strlen(m, s) : i = strlen(m, s) \/ ~s_in_set(m, m[s + i], set)})

strcspn(m, s, set) ==
  Min({i \in 0..strlen(m, s) : i = strlen(m, s) \/ s_in_set(m, m[s + i], set)})

strpbrk(m, s, set) == FirstOr({i \in InString(m, s) : m[i] # 0 /\ s_in_set(m, m[i], set)}, NULL)

(* strtok_r: the token found from a cursor on, and where the next call     *)
(* starts; the delimiter that ends a token is overwritten by a NUL.        *)
TokenStart(m, cursor) == Min({i \in InString(m, cursor) : m[i] \notin Delim})

TokenEnd(m, start) == Min({i \in InString(m, start) : m[i] = 0 \/ m[i] \in Delim})

TokenCut(m, start, end) ==
  IF m[start] = 0 THEN [mem |-> m, save |-> start, ret |-> NULL]
  ELSE IF m[end] = 0 THEN [mem |-> m, save |-> end, ret |-> start]
  ELSE [mem |-> [m EXCEPT ![end] = 0], save |-> end + 1, ret |-> start]

strtok_r(m, cursor) ==
  IF cursor = NULL THEN [mem |-> m, save |-> NULL, ret |-> NULL]
  ELSE TokenCut(m, TokenStart(m, cursor), TokenEnd(m, TokenStart(m, cursor)))

-----------------------------------------------------------------------------
(* One call from any state of errno and memory *)

NoTokens == <<>>

CTextInit ==
  /\ errno \in {"none", "EAGAIN"}
  /\ mem \in [Addresses -> MemBytes]
  /\ call = NoCall
  /\ toks = NoTokens

Idle == call = NoCall /\ toks = NoTokens

Calls(fn, args, ret) ==
  call' = [fn |-> fn, args |-> args, ret |-> ret, old |-> errno, was |-> mem]

SetErrno(err) == errno' = IF err = "none" THEN errno ELSE err

ParseCall(fn, s, base, ret) ==
  /\ Calls(fn, <<s, base>>, ret)
  /\ SetErrno(ret.err)
  /\ UNCHANGED <<mem, toks>>

MemWrite(fn, args, m) ==
  /\ Calls(fn, args, <<>>)
  /\ mem' = m
  /\ UNCHANGED <<errno, toks>>

MemRead(fn, args, ret) ==
  /\ Calls(fn, args, ret)
  /\ UNCHANGED <<errno, mem, toks>>

(* The parsers do not look at the memory: one is enough.                   *)
ParseCalls ==
  /\ Idle /\ \A a \in Addresses : mem[a] = 0
  /\ \E s \in NumTexts, base \in NumBases :
       \/ ParseCall("strtol", s, base, strtol(s, base))
       \/ ParseCall("strtoul", s, base, strtoul(s, base))
       \/ ParseCall("strtoll", s, base, strtoll(s, base))
       \/ ParseCall("strtoull", s, base, strtoull(s, base))
       \/ base = 10 /\ ParseCall("atoi", s, base, atoi(s))

MemoryCalls ==
  /\ Idle /\ errno = "none"
  /\ \E d, s \in Addresses, n \in 0..MemSize :
      /\ FitsIn(d, n) /\ FitsIn(s, n)
      /\ \/ Apart(d, s, n) /\ MemWrite("memcpy", <<d, s, n>>, memcpy(mem, d, s, n))
         \/ MemWrite("memmove", <<d, s, n>>, memmove(mem, d, s, n))
         \/ s = 1 /\ MemWrite("memset", <<d, s, n>>, memset(mem, d, s, n))
         \/ MemRead("memcmp", <<d, s, n>>, memcmp(mem, d, s, n))
         \/ s \in MemBytes /\ MemRead("memchr", <<d, s, n>>, memchr(mem, d, s, n))

(* strcpy and its kind write to cells of their own that they fit.          *)
StringWrites ==
  /\ Idle /\ errno = "none"
  /\ \E d, s \in Addresses, n \in 0..MemSize :
      /\ Terminated(mem, s) /\ d + MemSize \div 2 <= s
      /\ \/ n = 0 /\ d + strlen(mem, s) < s /\ MemWrite("strcpy", <<d, s, n>>, strcpy(mem, d, s))
         \/ d + n <= s /\ FitsIn(s, n) /\ MemWrite("strncpy", <<d, s, n>>, strncpy(mem, d, s, n))
         \/ /\ n = 0 /\ d + strlen(mem, d) + strlen(mem, s) < s
            /\ MemWrite("strcat", <<d, s, n>>, strcat(mem, d, s))
         \/ /\ FitsIn(s, n) /\ d + strlen(mem, d) + strnlen(mem, s, n) < s
            /\ MemWrite("strncat", <<d, s, n>>, strncat(mem, d, s, n))

StringReads ==
  /\ Idle /\ errno = "none"
  /\ \E a, b \in Addresses :
      /\ Terminated(mem, a) /\ Terminated(mem, b)
      /\ \/ MemRead("strcmp", <<a, b>>, strcmp(mem, a, b))
         \/ \E n \in 0..MemSize : MemRead("strncmp", <<a, b, n>>, strncmp(mem, a, b, n))
         \/ b \in MemBytes /\ MemRead("strchr", <<a, b>>, strchr(mem, a, b))
         \/ b \in MemBytes /\ MemRead("strrchr", <<a, b>>, strrchr(mem, a, b))
         \/ MemRead("strstr", <<a, b>>, strstr(mem, a, b))
         \/ MemRead("strspn", <<a, b>>, strspn(mem, a, b))
         \/ MemRead("strcspn", <<a, b>>, strcspn(mem, a, b))
         \/ MemRead("strpbrk", <<a, b>>, strpbrk(mem, a, b))

-----------------------------------------------------------------------------
(* strtok on the first string of the memory and strtok_r on the second,    *)
(* one call of either at a time                                            *)

Second == strlen(mem, 0) + 1

CString(m, a) == [i \in 1..strlen(m, a) |-> m[a + i - 1]]

Tokenizer(a) == [at |-> a, text |-> CString(mem, a), save |-> NULL, handed |-> <<>>, ended |-> FALSE]

StartTokens ==
  /\ Idle /\ errno = "none" /\ Terminated(mem, 0)
  /\ Second < MemSize /\ Terminated(mem, Second)
  /\ toks' = <<Tokenizer(0), Tokenizer(Second)>>
  /\ UNCHANGED <<errno, mem, call>>

Cursor(t) == IF t.save = NULL THEN t.at ELSE t.save

Handed(w, c) ==
  /\ mem' = c.mem
  /\ toks' = [toks EXCEPT
       ![w].save = c.save,
       ![w].ended = c.ret = NULL,
       ![w].handed = IF c.ret = NULL THEN @ ELSE Append(@, CString(c.mem, c.ret))]

NextToken(w) ==
  /\ toks # NoTokens /\ ~toks[w].ended
  /\ Handed(w, strtok_r(mem, Cursor(toks[w])))
  /\ UNCHANGED <<errno, call>>

CTextNext ==
  \/ ParseCalls
  \/ MemoryCalls
  \/ StringWrites
  \/ StringReads
  \/ StartTokens
  \/ \E w \in 1..2 : NextToken(w)

-----------------------------------------------------------------------------
(* What the C standard promises, stated without the loops *)

DigitsFrom(s, base) == SignEnd(s, SpacesEnd(s))

(* The ways a base's grammar reads digits: [b]ase, [p]refix length, [e]nd. *)
Subjects(s, i, base) ==
  {x \in [b : IF base = 0 THEN {8, 10, 16} ELSE {base}, p : {0, 2}, e : i..Len(s)] :
     /\ x.p = 2 => x.b = 16 /\ CharAt(s, i) = "0" /\ CharAt(s, i + 1) = "x"
     /\ base = 0 => /\ x.b = 16 => x.p = 2
                    /\ x.b = 8 <=> (x.p = 0 /\ CharAt(s, i) = "0")
     /\ i + x.p <= x.e
     /\ \A k \in (i + x.p)..x.e : s[k] \in Range(DigitChars) /\ CharValue(s[k]) < x.b}

Horner(s, x, i) ==
  FoldLeft(LAMBDA v, c : v * x.b + CharValue(c), 0, SubSeq(s, i + x.p, x.e))

WidthOf(fn) == IF fn \in {"strtoll", "strtoull"} THEN UllMax ELSE UlongMax

LowOf(fn) == IF fn = "atoi" THEN -IntMax - 1 ELSE -(WidthOf(fn) \div 2) - 1

HighOf(fn) == IF fn = "atoi" THEN IntMax ELSE WidthOf(fn) \div 2

SignedResult(fn, v, r) ==
  /\ r.value = IF v > HighOf(fn) THEN HighOf(fn) ELSE IF v < LowOf(fn) THEN LowOf(fn) ELSE v
  /\ fn # "atoi" => (r.err = "ERANGE" <=> r.value # v)

UnsignedResult(fn, v, neg, r) ==
  IF v > WidthOf(fn) THEN r.value = WidthOf(fn) /\ r.err = "ERANGE"
  ELSE /\ (r.value - (IF neg THEN -v ELSE v)) % (WidthOf(fn) + 1) = 0
       /\ r.value \in 0..WidthOf(fn) /\ r.err = "none"

SubjectRead(fn, s, x, i, neg, r) ==
  /\ r.end = x.e + 1
  /\ IF fn \in {"strtoul", "strtoull"} THEN UnsignedResult(fn, Horner(s, x, i), neg, r)
     ELSE SignedResult(fn, IF neg THEN -Horner(s, x, i) ELSE Horner(s, x, i), r)

ParseContract(fn, s, base, r) ==
  /\ errno = IF r.err = "none" THEN call.old ELSE r.err
  /\ IF base = 1 \/ Subjects(s, DigitsFrom(s, base), base) = {}
     THEN r.value = 0 /\ r.end = 1 /\ r.err = IF base = 1 THEN "EINVAL" ELSE "none"
     ELSE \E x \in Subjects(s, DigitsFrom(s, base), base) :
            /\ \A y \in Subjects(s, DigitsFrom(s, base), base) : y.e <= x.e
            /\ SubjectRead(fn, s, x, DigitsFrom(s, base), CharAt(s, SpacesEnd(s)) = "-", r)

MovedBytes(d, s, n) ==
  \A i \in Addresses : mem[i] = IF d <= i /\ i < d + n THEN call.was[s + i - d] ELSE call.was[i]

OnlyWithin(lo, hi) == \A i \in Addresses : i < lo \/ i > hi => mem[i] = call.was[i]

LexBefore(x, y) ==
  \E k \in 1..Len(y) : /\ \A j \in 1..(k - 1) : j <= Len(x) /\ x[j] = y[j]
                       /\ k <= Len(x) => x[k] < y[k]

Ordered(x, y, r) == (r < 0 <=> LexBefore(x, y)) /\ (r > 0 <=> LexBefore(y, x))

Clip(x, n) == SubSeq(x, 1, IF n < Len(x) THEN n ELSE Len(x))

MemOf(m, a, n) == [i \in 1..n |-> m[a + i - 1]]

WriteContract(fn, d, s, n, m) ==
  CASE fn \in {"memcpy", "memmove"} -> MovedBytes(d, s, n)
    [] fn = "memset" -> OnlyWithin(d, d + n - 1) /\ MemOf(mem, d, n) = [i \in 1..n |-> s]
    [] fn = "strcpy" -> /\ CString(mem, d) = CString(m, s)
                        /\ OnlyWithin(d, d + strlen(m, s))
    [] fn = "strncpy" -> /\ OnlyWithin(d, d + n - 1)
                         /\ \A i \in 1..n : mem[d + i - 1] = IF i <= strlen(m, s) THEN m[s + i - 1] ELSE 0
    [] fn = "strcat" -> /\ CString(mem, d) = CString(m, d) \o CString(m, s)
                        /\ OnlyWithin(d, d + strlen(mem, d))
    [] fn = "strncat" -> /\ CString(mem, d) = CString(m, d) \o Clip(CString(m, s), n)
                         /\ OnlyWithin(d, d + strlen(mem, d))

Occurs(m, i, needle) ==
  Terminated(m, i) /\ Clip(CString(m, i), Len(needle)) = needle

Leading(x, S, r) ==
  r <= Len(x) /\ (\A i \in 1..r : x[i] \in S) /\ (r < Len(x) => x[r + 1] \notin S)

ReadContract(fn, a, b, m, r) ==
  CASE fn = "strcmp" -> Ordered(CString(m, a), CString(m, b), r)
    [] fn = "strncmp" -> Ordered(Clip(CString(m, a), call.args[3]), Clip(CString(m, b), call.args[3]), r)
    [] fn = "memcmp" -> Ordered(MemOf(m, a, call.args[3]), MemOf(m, b, call.args[3]), r)
    [] fn = "memchr" -> IF r = NULL THEN \A i \in 1..call.args[3] : m[a + i - 1] # b
                        ELSE m[r] = b /\ a <= r /\ \A i \in a..(r - 1) : m[i] # b
    [] fn = "strchr" -> IF r = NULL THEN \A i \in InString(m, a) : m[i] # b
                        ELSE m[r] = b /\ r \in InString(m, a) /\ \A i \in a..(r - 1) : m[i] # b
    [] fn = "strrchr" -> IF r = NULL THEN \A i \in InString(m, a) : m[i] # b
                         ELSE m[r] = b /\ \A i \in InString(m, a) : m[i] = b => i <= r
    [] fn = "strstr" -> IF r = NULL THEN \A i \in InString(m, a) : ~Occurs(m, i, CString(m, b))
                        ELSE /\ Occurs(m, r, CString(m, b))
                             /\ \A i \in a..(r - 1) : ~Occurs(m, i, CString(m, b))
    [] fn = "strspn" -> Leading(CString(m, a), Range(CString(m, b)), r)
    [] fn = "strcspn" -> Leading(CString(m, a), MemBytes \ Range(CString(m, b)), r)
    [] fn = "strpbrk" -> IF r = NULL THEN Range(CString(m, a)) \cap Range(CString(m, b)) = {}
                         ELSE Leading(CString(m, a), MemBytes \ Range(CString(m, b)), r - a)

WordStarts(x) == {i \in 1..Len(x) : x[i] \notin Delim /\ (i = 1 \/ x[i - 1] \in Delim)}

IsWord(x, i, w) ==
  /\ SubSeq(x, i, i + Len(w) - 1) = w
  /\ i + Len(w) = Len(x) + 1 \/ x[i + Len(w)] \in Delim

TokensContract(t) ==
  /\ Len(t.handed) <= Cardinality(WordStarts(t.text))
  /\ t.ended => Len(t.handed) = Cardinality(WordStarts(t.text))
  /\ \A k \in 1..Len(t.handed) : \E i \in WordStarts(t.text) :
       /\ Cardinality({j \in WordStarts(t.text) : j < i}) = k - 1
       /\ IsWord(t.text, i, t.handed[k])

(* Every call of stdlib.c and string.c keeps the C contract its header     *)
(* names: the parsers read the longest number the base's grammar allows,   *)
(* clamp or wrap it to the width of their type and touch errno only on an  *)
(* error; the copies are right under overlap and change no other cell; the *)
(* searches and comparisons agree with the strings; and strtok and         *)
(* strtok_r, taking turns in any order, each hand out the words of their   *)
(* own string, all of them and in order.                                   *)
TextContracts ==
  /\ call.fn \in {"strtol", "strtoul", "strtoll", "strtoull", "atoi"}
       => ParseContract(call.fn, call.args[1], call.args[2], call.ret)
  /\ call.fn \in {"memcpy", "memmove", "memset", "strcpy", "strncpy", "strcat", "strncat"}
       => WriteContract(call.fn, call.args[1], call.args[2], call.args[3], call.was)
  /\ call.fn \in {"memcmp", "memchr", "strcmp", "strncmp", "strchr", "strrchr", "strstr",
                  "strspn", "strcspn", "strpbrk"}
       => ReadContract(call.fn, call.args[1], call.args[2], call.was, call.ret)
  /\ toks # NoTokens => \A w \in 1..2 : TokensContract(toks[w])
=============================================================================
