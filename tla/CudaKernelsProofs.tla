------------------------- MODULE CudaKernelsProofs --------------------------
(***************************************************************************)
(* What holds of the kernels with one thread for each work item, for every *)
(* graph view, width, bound and block size.                                *)
(***************************************************************************)
EXTENDS CudaKernels, CycleFacts

-----------------------------------------------------------------------------
(***************************************************************************)
(* The binary searches.                                                    *)
(***************************************************************************)
\* values holds numbers at the positions from begin up to, and not, end, sorted.
Ascending(values, begin, end) ==
  /\ begin \in Nat /\ end \in Nat /\ begin <= end
  /\ \A i \in begin..(end - 1) : values[i] \in Int
  /\ \A i, j \in begin..(end - 1) : i < j => values[i] <= values[j]

\* A set of positions that holds with one position all before it ends somewhere.
LEMMA SplitPoint ==
  ASSUME NEW begin \in Nat, NEW end \in Nat, begin <= end, NEW A,
         \A i, j \in begin..(end - 1) : i < j /\ j \in A => i \in A
  PROVE  \E l \in begin..end : \A i \in begin..(end - 1) : i \in A <=> i < l
<1> DEFINE Good == {n \in Nat : begin + n <= end =>
                      \E l \in begin..(begin + n) :
                        \A i \in begin..(begin + n - 1) : i \in A <=> i < l}
<1>1. 0 \in Good
  OBVIOUS
<1>2. ASSUME NEW n \in Nat, n \in Good
      PROVE  n + 1 \in Good
  <2>1. SUFFICES ASSUME begin + (n + 1) <= end
                 PROVE  \E l \in begin..(begin + (n + 1)) :
                          \A i \in begin..(begin + (n + 1) - 1) : i \in A <=> i < l
    OBVIOUS
  <2>2. PICK l \in begin..(begin + n) : \A i \in begin..(begin + n - 1) : i \in A <=> i < l
    BY <1>2, <2>1
  <2>3. CASE begin + n \in A
    <3>1. \A i \in begin..(begin + (n + 1) - 1) : i \in A
      BY <2>1, <2>3
    <3>2. \A i \in begin..(begin + (n + 1) - 1) : i < begin + (n + 1)
      OBVIOUS
    <3>3. begin + (n + 1) \in begin..(begin + (n + 1))
      OBVIOUS
    <3>4. QED
      BY <3>1, <3>2, <3>3
  <2>4. CASE begin + n \notin A
    <3>1. \A i \in begin..(begin + (n + 1) - 1) : i \in begin..(begin + n - 1) \/ i = begin + n
      OBVIOUS
    <3>2. \A i \in begin..(begin + (n + 1) - 1) : i \in A <=> i < l
      BY <2>2, <2>4, <3>1
    <3>3. QED
      BY <3>2
  <2>5. QED
    BY <2>3, <2>4
<1>3. \A n \in Nat : n \in Good
  <2> HIDE DEF Good
  <2> QED BY <1>1, <1>2, NatSetInduction
<1> DEFINE n == end - begin
<1>4. n \in Nat /\ begin + n = end
  OBVIOUS
<1>5. n \in Good
  BY <1>3, <1>4
<1> HIDE DEF n
<1>6. QED
  BY <1>4, <1>5

Ranges(begin, end) == (begin..end) \X (begin..end)

\* A step of a binary search for l, in a range.
Look(l, found, range) ==
  LET mid == range[1] + (range[2] - range[1]) \div 2
  IN  IF range[1] >= range[2] THEN range[1]
      ELSE IF mid < l THEN found[<<mid + 1, range[2]>>] ELSE found[<<range[1], mid>>]

\* What is found: l, or the end of the range next to it.
Nearest(l, range) ==
  IF range[1] >= range[2] \/ l < range[1] THEN range[1]
  ELSE IF l > range[2] THEN range[2] ELSE l

NearestIn(l, begin, end) == [range \in Ranges(begin, end) |-> Nearest(l, range)]

LEMMA Halves ==
  ASSUME NEW begin \in Nat, NEW end \in Nat, NEW range \in Ranges(begin, end),
         range[1] < range[2], NEW mid, mid = range[1] + (range[2] - range[1]) \div 2
  PROVE  /\ mid \in Nat /\ range[1] <= mid /\ mid < range[2]
         /\ <<mid + 1, range[2]>> \in Ranges(begin, end)
         /\ <<range[1], mid>> \in Ranges(begin, end)
<1>1. range[1] \in begin..end /\ range[2] \in begin..end
  BY DEF Ranges
<1>2. mid \in Nat /\ range[1] <= mid /\ mid < range[2]
  BY <1>1
<1>3. QED
  BY <1>1, <1>2 DEF Ranges

LEMMA NearestLooks ==
  ASSUME NEW begin \in Nat, NEW end \in Nat, NEW l \in begin..end,
         NEW range \in Ranges(begin, end)
  PROVE  Nearest(l, range) = Look(l, NearestIn(l, begin, end), range)
<1> DEFINE mid == range[1] + (range[2] - range[1]) \div 2
           h == NearestIn(l, begin, end)
<1>1. range[1] \in begin..end /\ range[2] \in begin..end
  BY DEF Ranges
<1>2. CASE range[1] >= range[2]
  BY <1>2 DEF Look, Nearest
<1>3. CASE range[1] < range[2]
  <2>1. /\ mid \in Nat /\ range[1] <= mid /\ mid < range[2]
        /\ <<mid + 1, range[2]>> \in Ranges(begin, end)
        /\ <<range[1], mid>> \in Ranges(begin, end)
    <3> HIDE DEF mid
    <3> SUFFICES mid = range[1] + (range[2] - range[1]) \div 2
      BY <1>3, Halves
    <3> QED BY DEF mid
  <2>2. Look(l, h, range) = IF mid < l THEN h[<<mid + 1, range[2]>>] ELSE h[<<range[1], mid>>]
    BY <1>1, <1>3 DEF Look
  <2>3. /\ h[<<mid + 1, range[2]>>] = Nearest(l, <<mid + 1, range[2]>>)
        /\ h[<<range[1], mid>>] = Nearest(l, <<range[1], mid>>)
    <3> HIDE DEF mid
    <3> QED BY <2>1 DEF NearestIn
  <2> HIDE DEF mid, h
  <2>4. mid < l => Nearest(l, <<mid + 1, range[2]>>) = Nearest(l, range)
    BY <1>1, <1>3, <2>1 DEF Nearest
  <2>5. ~(mid < l) => Nearest(l, <<range[1], mid>>) = Nearest(l, range)
    BY <1>1, <1>3, <2>1 DEF Nearest
  <2>6. QED
    BY <2>2, <2>3, <2>4, <2>5 DEF h
<1>4. QED
  BY <1>1, <1>2, <1>3

\* A function that makes the steps of a search for l finds l.
LEMMA SearchFinds ==
  ASSUME NEW begin \in Nat, NEW end \in Nat, begin <= end, NEW l \in begin..end, NEW s,
         \A range \in Ranges(begin, end) : s[range] = Look(l, s, range)
  PROVE  s[<<begin, end>>] = l
<1> DEFINE R == Ranges(begin, end)
           h == NearestIn(l, begin, end)
           Agree(n) == \A range \in R : range[2] - range[1] < n => s[range] = h[range]
           Good == {n \in Nat : Agree(n)}
<1>1. \A range \in R : range[1] \in begin..end /\ range[2] \in begin..end
  BY DEF Ranges
<1>2. \A range \in R : h[range] = Nearest(l, range) /\ h[range] = Look(l, h, range)
  BY NearestLooks DEF NearestIn
<1>3. 1 \in Good /\ 0 \in Good
  <2>1. ASSUME NEW range \in R, range[2] - range[1] < 1
        PROVE  s[range] = h[range]
    <3>1. range[1] >= range[2]
      BY <1>1, <2>1
    <3>2. QED
      BY <1>2, <3>1 DEF Look
  <2>2. \A range \in R : range[2] - range[1] < 0 => range[2] - range[1] < 1
    BY <1>1
  <2>3. QED
    BY <2>1, <2>2
<1>4. ASSUME NEW n \in Nat, n \in Good
      PROVE  n + 1 \in Good
  <2>1. ASSUME NEW range \in R, range[2] - range[1] < n + 1
        PROVE  s[range] = h[range]
    <3> DEFINE mid == range[1] + (range[2] - range[1]) \div 2
    <3>1. CASE range[1] >= range[2]
      BY <1>2, <3>1 DEF Look
    <3>2. CASE range[1] < range[2]
      <4>1. /\ mid \in Nat /\ range[1] <= mid /\ mid < range[2]
            /\ <<mid + 1, range[2]>> \in R /\ <<range[1], mid>> \in R
        <5> HIDE DEF mid
        <5> SUFFICES mid = range[1] + (range[2] - range[1]) \div 2
          BY <3>2, Halves
        <5> QED BY DEF mid
      <4>2. \A f : Look(l, f, range) =
                     IF mid < l THEN f[<<mid + 1, range[2]>>] ELSE f[<<range[1], mid>>]
        BY <1>1, <3>2 DEF Look
      <4> HIDE DEF mid
      <4>3. range[2] - (mid + 1) < n /\ mid - range[1] < n
        BY <1>1, <2>1, <4>1
      <4>4. \A r \in R : r[2] - r[1] < n => s[r] = h[r]
        BY <1>4
      <4>5. /\ s[<<mid + 1, range[2]>>] = h[<<mid + 1, range[2]>>]
            /\ s[<<range[1], mid>>] = h[<<range[1], mid>>]
        BY <4>1, <4>3, <4>4
      <4>6. QED
        BY <1>2, <4>2, <4>5
    <3>3. QED
      BY <1>1, <3>1, <3>2
  <2>2. QED
    BY <2>1
<1>5. \A n \in Nat : n \in Good
  <2> HIDE DEF Good
  <2> QED BY <1>3, <1>4, NatSetInduction
<1>6. end - begin + 1 \in Good /\ <<begin, end>> \in R
  BY <1>5 DEF Ranges
<1>7. s[<<begin, end>>] = h[<<begin, end>>]
  BY <1>6
<1>8. h[<<begin, end>>] = l
  BY <1>2, <1>6 DEF Nearest
<1>9. QED
  BY <1>7, <1>8

\* The steps of the two searches, and the functions they define.
LowerLook(values, target, found, range) ==
  LET mid == range[1] + (range[2] - range[1]) \div 2
  IN  IF range[1] >= range[2] THEN range[1]
      ELSE IF values[mid] < target THEN found[<<mid + 1, range[2]>>]
                                   ELSE found[<<range[1], mid>>]

UpperLook(values, target, found, range) ==
  LET mid == range[1] + (range[2] - range[1]) \div 2
  IN  IF range[1] >= range[2] THEN range[1]
      ELSE IF target < values[mid] THEN found[<<range[1], mid>>]
                                   ELSE found[<<mid + 1, range[2]>>]

LowerSearch(values, begin, end, target) ==
  CHOOSE s : s = [range \in Ranges(begin, end) |-> LowerLook(values, target, s, range)]

UpperSearch(values, begin, end, target) ==
  CHOOSE s : s = [range \in Ranges(begin, end) |-> UpperLook(values, target, s, range)]

LEMMA LowerBoundSplits ==
  ASSUME NEW values, NEW begin, NEW end, Ascending(values, begin, end), NEW target \in Int
  PROVE  /\ LowerBound(values, begin, end, target) \in begin..end
         /\ \A i \in begin..(end - 1) :
              values[i] < target <=> i < LowerBound(values, begin, end, target)
<1> DEFINE A == {i \in begin..(end - 1) : values[i] < target}
           s == LowerSearch(values, begin, end, target)
<1>1. begin \in Nat /\ end \in Nat /\ begin <= end
  BY DEF Ascending
<1>2. PICK l \in begin..end : \A i \in begin..(end - 1) : i \in A <=> i < l
  <2>1. \A i, j \in begin..(end - 1) : i < j /\ j \in A => i \in A
    BY DEF Ascending
  <2> HIDE DEF A
  <2>2. QED
    BY <1>1, <2>1, SplitPoint
<1>3. ASSUME NEW f, NEW range \in Ranges(begin, end)
      PROVE  LowerLook(values, target, f, range) = Look(l, f, range)
  <2> DEFINE mid == range[1] + (range[2] - range[1]) \div 2
  <2>1. range[1] \in begin..end /\ range[2] \in begin..end
    BY DEF Ranges
  <2>2. CASE range[1] >= range[2]
    BY <2>2 DEF Look, LowerLook
  <2>3. CASE range[1] < range[2]
    <3>1. mid \in begin..(end - 1)
      BY <1>1, <2>1, <2>3
    <3>2. values[mid] < target <=> mid < l
      <4> HIDE DEF mid
      <4> QED BY <1>2, <3>1
    <3>3. ~(range[1] >= range[2])
      BY <1>1, <2>1, <2>3
    <3>4. QED
      BY <3>2, <3>3 DEF Look, LowerLook
  <2>4. QED
    BY <1>1, <2>1, <2>2, <2>3
<1>4. \E f : f = [range \in Ranges(begin, end) |-> LowerLook(values, target, f, range)]
  <2> DEFINE h == NearestIn(l, begin, end)
  <2>1. \A range \in Ranges(begin, end) : Nearest(l, range) = LowerLook(values, target, h, range)
    BY <1>1, <1>3, NearestLooks
  <2>2. h = [range \in Ranges(begin, end) |-> Nearest(l, range)]
    BY DEF NearestIn
  <2> HIDE DEF h
  <2>3. h = [range \in Ranges(begin, end) |-> LowerLook(values, target, h, range)]
    BY <2>1, <2>2
  <2>4. QED
    BY <2>3
<1>5. s = [range \in Ranges(begin, end) |-> LowerLook(values, target, s, range)]
  BY <1>4 DEF LowerSearch
<1>6. \A range \in Ranges(begin, end) : s[range] = Look(l, s, range)
  <2> HIDE DEF s
  <2> QED BY <1>3, <1>5
<1>7. s[<<begin, end>>] = l
  <2> HIDE DEF s
  <2> QED BY <1>1, <1>6, SearchFinds
<1>8. LowerBound(values, begin, end, target) = s[<<begin, end>>]
  BY DEF LowerBound, LowerSearch, LowerLook, Ranges
<1>9. QED
  BY <1>2, <1>7, <1>8

LEMMA UpperBoundSplits ==
  ASSUME NEW values, NEW begin, NEW end, Ascending(values, begin, end), NEW target \in Int
  PROVE  /\ UpperBound(values, begin, end, target) \in begin..end
         /\ \A i \in begin..(end - 1) :
              ~(target < values[i]) <=> i < UpperBound(values, begin, end, target)
<1> DEFINE A == {i \in begin..(end - 1) : ~(target < values[i])}
           s == UpperSearch(values, begin, end, target)
<1>1. begin \in Nat /\ end \in Nat /\ begin <= end
  BY DEF Ascending
<1>2. PICK l \in begin..end : \A i \in begin..(end - 1) : i \in A <=> i < l
  <2>1. \A i, j \in begin..(end - 1) : i < j /\ j \in A => i \in A
    BY DEF Ascending
  <2> HIDE DEF A
  <2>2. QED
    BY <1>1, <2>1, SplitPoint
<1>3. ASSUME NEW f, NEW range \in Ranges(begin, end)
      PROVE  UpperLook(values, target, f, range) = Look(l, f, range)
  <2> DEFINE mid == range[1] + (range[2] - range[1]) \div 2
  <2>1. range[1] \in begin..end /\ range[2] \in begin..end
    BY DEF Ranges
  <2>2. CASE range[1] >= range[2]
    BY <2>2 DEF Look, UpperLook
  <2>3. CASE range[1] < range[2]
    <3>1. mid \in begin..(end - 1)
      BY <1>1, <2>1, <2>3
    <3>2. ~(target < values[mid]) <=> mid < l
      <4> HIDE DEF mid
      <4> QED BY <1>2, <3>1
    <3>3. ~(range[1] >= range[2])
      BY <1>1, <2>1, <2>3
    <3>4. QED
      BY <3>2, <3>3 DEF Look, UpperLook
  <2>4. QED
    BY <1>1, <2>1, <2>2, <2>3
<1>4. \E f : f = [range \in Ranges(begin, end) |-> UpperLook(values, target, f, range)]
  <2> DEFINE h == NearestIn(l, begin, end)
  <2>1. \A range \in Ranges(begin, end) : Nearest(l, range) = UpperLook(values, target, h, range)
    BY <1>1, <1>3, NearestLooks
  <2>2. h = [range \in Ranges(begin, end) |-> Nearest(l, range)]
    BY DEF NearestIn
  <2> HIDE DEF h
  <2>3. h = [range \in Ranges(begin, end) |-> UpperLook(values, target, h, range)]
    BY <2>1, <2>2
  <2>4. QED
    BY <2>3
<1>5. s = [range \in Ranges(begin, end) |-> UpperLook(values, target, s, range)]
  BY <1>4 DEF UpperSearch
<1>6. \A range \in Ranges(begin, end) : s[range] = Look(l, s, range)
  <2> HIDE DEF s
  <2> QED BY <1>3, <1>5
<1>7. s[<<begin, end>>] = l
  <2> HIDE DEF s
  <2> QED BY <1>1, <1>6, SearchFinds
<1>8. UpperBound(values, begin, end, target) = s[<<begin, end>>]
  BY DEF UpperBound, UpperSearch, UpperLook, Ranges
<1>9. QED
  BY <1>2, <1>7, <1>8

\* The timestamps after one and not after another, in the order of their positions.
LEMMA AfterFinds ==
  ASSUME NEW values, NEW begin, NEW end, Ascending(values, begin, end),
         NEW previous \in Int, NEW windowEnd \in Int
  PROVE  Positions(DeviceAfter(values, begin, end, previous, windowEnd)) =
           {i \in begin..(end - 1) : previous < values[i] /\ values[i] <= windowEnd}
<1> DEFINE first == UpperBound(values, begin, end, previous)
           last == UpperBound(values, first, end, windowEnd)
<1>1. /\ begin \in Nat /\ end \in Nat /\ begin <= end
      /\ \A i \in begin..(end - 1) : values[i] \in Int
  BY DEF Ascending
<1>2. /\ first \in begin..end
      /\ \A i \in begin..(end - 1) : ~(previous < values[i]) <=> i < first
  BY UpperBoundSplits
<1>3. Ascending(values, first, end)
  <2> HIDE DEF first
  <2> QED BY <1>1, <1>2 DEF Ascending
<1>4. /\ last \in first..end
      /\ \A i \in first..(end - 1) : ~(windowEnd < values[i]) <=> i < last
  <2> HIDE DEF first
  <2> QED BY <1>3, UpperBoundSplits
<1>5. DeviceAfter(values, begin, end, previous, windowEnd) = [begin |-> first, end |-> last]
  BY <1>1 DEF DeviceAfter
<1> HIDE DEF first, last
<1>6. Positions(DeviceAfter(values, begin, end, previous, windowEnd)) = first..(last - 1)
  BY <1>5 DEF Positions
<1>7. ASSUME NEW i \in first..(last - 1)
      PROVE  i \in begin..(end - 1) /\ previous < values[i] /\ values[i] <= windowEnd
  BY <1>1, <1>2, <1>4
<1>8. ASSUME NEW i \in begin..(end - 1), previous < values[i], values[i] <= windowEnd
      PROVE  i \in first..(last - 1)
  <2>1. i >= first
    BY <1>1, <1>2, <1>8
  <2>2. i < last
    BY <1>1, <1>2, <1>4, <1>8, <2>1
  <2>3. QED
    BY <1>1, <1>2, <1>4, <2>1, <2>2
<1>9. QED
  BY <1>6, <1>7, <1>8

\* Whether there is a timestamp in a window, its start included or not.
HasInWindow(values, begin, end, start, width, inclusive) ==
  /\ width >= 0 /\ start + width <= TimeMax
  /\ \E i \in begin..(end - 1) :
       /\ IF inclusive THEN values[i] >= start ELSE values[i] > start
       /\ values[i] <= start + width

LEMMA WindowFinds ==
  ASSUME NEW values, NEW begin, NEW end, Ascending(values, begin, end),
         NEW start \in Int, NEW width \in Int, NEW inclusive \in BOOLEAN, TimeMax \in Int
  PROVE  DeviceHasTimestamp(values, begin, end, start, width, inclusive) =
           HasInWindow(values, begin, end, start, width, inclusive)
<1> DEFINE first == IF inclusive THEN LowerBound(values, begin, end, start)
                                 ELSE UpperBound(values, begin, end, start)
           last == UpperBound(values, first, end, start + width)
           In(i) == /\ IF inclusive THEN values[i] >= start ELSE values[i] > start
                    /\ values[i] <= start + width
<1>1. /\ begin \in Nat /\ end \in Nat /\ begin <= end
      /\ \A i \in begin..(end - 1) : values[i] \in Int
  BY DEF Ascending
<1>2. CASE Overflows(start, width)
  <2>1. ~(width >= 0 /\ start + width <= TimeMax)
    BY <1>2 DEF Overflows
  <2>2. DeviceInWindow(values, begin, end, start, width, inclusive) = NoRange
    BY <1>2 DEF DeviceInWindow
  <2>3. DeviceHasTimestamp(values, begin, end, start, width, inclusive) = FALSE
    BY <2>2 DEF DeviceHasTimestamp, NoRange, IsEmpty
  <2>4. QED
    BY <2>1, <2>3 DEF HasInWindow
<1>3. CASE ~Overflows(start, width)
  <2>1. width >= 0 /\ start + width <= TimeMax
    BY <1>3 DEF Overflows
  <2>2. /\ first \in begin..end
        /\ \A i \in begin..(end - 1) :
             (IF inclusive THEN values[i] >= start ELSE values[i] > start) <=> ~(i < first)
    <3>1. CASE inclusive
      <4>1. \A i \in begin..(end - 1) :
              values[i] < start <=> i < LowerBound(values, begin, end, start)
        BY LowerBoundSplits
      <4>2. \A i \in begin..(end - 1) : values[i] < start <=> ~(values[i] >= start)
        BY <1>1
      <4>3. QED
        BY <3>1, <4>1, <4>2, LowerBoundSplits
    <3>2. CASE ~inclusive
      <4>1. \A i \in begin..(end - 1) :
              ~(start < values[i]) <=> i < UpperBound(values, begin, end, start)
        BY UpperBoundSplits
      <4>2. \A i \in begin..(end - 1) : start < values[i] <=> values[i] > start
        BY <1>1
      <4>3. QED
        BY <3>2, <4>1, <4>2, UpperBoundSplits
    <3>3. QED
      BY <3>1, <3>2
  <2>3. Ascending(values, first, end)
    <3> HIDE DEF first
    <3> QED BY <1>1, <2>2 DEF Ascending
  <2>4. /\ last \in first..end
        /\ \A i \in first..(end - 1) : ~(start + width < values[i]) <=> i < last
    <3> HIDE DEF first
    <3> QED BY <2>3, UpperBoundSplits
  <2>5. DeviceInWindow(values, begin, end, start, width, inclusive)
          = [begin |-> first, end |-> last]
    BY <1>1, <1>3 DEF DeviceInWindow
  <2>6. DeviceHasTimestamp(values, begin, end, start, width, inclusive) = ~(first >= last)
    <3> HIDE DEF first, last
    <3> QED BY <2>5 DEF DeviceHasTimestamp, IsEmpty
  <2>7. ASSUME ~(first >= last)
        PROVE  \E i \in begin..(end - 1) : In(i)
    <3> HIDE DEF first, last
    <3>1. first \in begin..(end - 1) /\ first \in first..(end - 1) /\ first < last
      BY <1>1, <2>2, <2>4, <2>7
    <3>2. In(first)
      BY <1>1, <2>2, <2>4, <3>1
    <3>3. QED
      BY <3>1, <3>2
  <2>8. ASSUME NEW i \in begin..(end - 1), In(i)
        PROVE  ~(first >= last)
    <3>1. ~(i < first)
      BY <2>2, <2>8
    <3> HIDE DEF first, last
    <3>2. i \in first..(end - 1) /\ ~(start + width < values[i])
      BY <1>1, <2>2, <2>8, <3>1
    <3>3. QED
      BY <1>1, <2>2, <2>4, <3>1, <3>2
  <2> HIDE DEF first, last, In
  <2>9. ~(first >= last) <=> \E i \in begin..(end - 1) : In(i)
    BY <2>7, <2>8
  <2>10. QED
    BY <2>1, <2>6, <2>9 DEF In, HasInWindow
<1>4. QED
  BY <1>2, <1>3

-----------------------------------------------------------------------------
(***************************************************************************)
(* The packed graph.                                                       *)
(***************************************************************************)
\* The first k of a sequence.
Prefix(s, k) == [i \in 1..k |-> s[i]]

Join(seqs, f, i) == IF i = 1 THEN seqs[i] ELSE f[i - 1] \o seqs[i]

Joined(seqs) == CHOOSE f : f = [i \in 1..Len(seqs) |-> Join(seqs, f, i)]

LEMMA JoinsExist ==
  ASSUME NEW S, NEW n \in Nat, NEW s, \A i \in 1..n : s[i] \in Seq(S)
  PROVE  \E f : f = [i \in 1..n |-> Join(s, f, i)] /\ \A i \in 1..n : f[i] \in Seq(S)
<1> DEFINE Is(f, m) == f = [i \in 1..m |-> Join(s, f, i)] /\ \A i \in 1..m : f[i] \in Seq(S)
           Good == {m \in Nat : m <= n => \E f : Is(f, m)}
<1>1. 0 \in Good
  <2>1. [i \in 1..0 |-> 0] = [i \in 1..0 |-> Join(s, [j \in 1..0 |-> 0], i)]
    OBVIOUS
  <2>2. Is([i \in 1..0 |-> 0], 0)
    BY <2>1
  <2>3. QED
    BY <2>2
<1>2. ASSUME NEW m \in Nat, m \in Good
      PROVE  m + 1 \in Good
  <2>1. SUFFICES ASSUME m + 1 <= n
                 PROVE  \E f : Is(f, m + 1)
    OBVIOUS
  <2>2. PICK f : Is(f, m)
    BY <1>2, <2>1
  <2> DEFINE last == IF m = 0 THEN s[1] ELSE f[m] \o s[m + 1]
             h == [i \in 1..(m + 1) |-> IF i = m + 1 THEN last ELSE f[i]]
  <2>3. last \in Seq(S)
    <3>1. CASE m = 0
      BY <2>1, <3>1
    <3>2. CASE m # 0
      <4>1. f[m] \in Seq(S) /\ s[m + 1] \in Seq(S)
        BY <2>1, <2>2, <3>2
      <4>2. QED
        BY <3>2, <4>1, ConcatProperties
    <3>3. QED
      BY <3>1, <3>2
  <2>4. \A i \in 1..m : f[i] = Join(s, f, i)
    <3>1. f = [i \in 1..m |-> Join(s, f, i)]
      BY <2>2
    <3>2. QED
      BY <3>1
  <2> HIDE DEF last
  <2>5. \A i \in 1..m : h[i] = f[i] /\ (i # 1 => h[i - 1] = f[i - 1])
    OBVIOUS
  <2>6. \A i \in 1..m : h[i] = Join(s, h, i)
    BY <2>4, <2>5 DEF Join
  <2>7. h[m + 1] = Join(s, h, m + 1)
    <3>1. CASE m = 0
      BY <3>1 DEF Join, last
    <3>2. CASE m # 0
      <4>1. h[m + 1] = last /\ h[(m + 1) - 1] = f[m] /\ m + 1 # 1
        BY <3>2
      <4> HIDE DEF h
      <4>2. QED
        BY <3>2, <4>1 DEF Join, last
    <3>3. QED
      BY <3>1, <3>2
  <2>8. \A i \in 1..(m + 1) : i \in 1..m \/ i = m + 1
    OBVIOUS
  <2>9. h = [i \in 1..(m + 1) |-> h[i]]
    OBVIOUS
  <2>10. \A i \in 1..(m + 1) : h[i] \in Seq(S)
    BY <2>2, <2>3, <2>8
  <2> HIDE DEF h
  <2>11. h = [i \in 1..(m + 1) |-> Join(s, h, i)]
    BY <2>6, <2>7, <2>8, <2>9
  <2>12. QED
    BY <2>10, <2>11
<1>3. \A m \in Nat : m \in Good
  <2> HIDE DEF Good
  <2> QED BY <1>1, <1>2, NatSetInduction
<1>4. QED
  BY <1>3

\* A sequence of sequences is flattened one by one.
LEMMA FlattenPrefix ==
  ASSUME NEW S, NEW n \in Nat, NEW s, \A i \in 1..n : s[i] \in Seq(S)
  PROVE  /\ FlattenSeq(Prefix(s, 0)) = << >>
         /\ \A k \in 1..n : /\ FlattenSeq(Prefix(s, k)) \in Seq(S)
                             /\ FlattenSeq(Prefix(s, k))
                                  = FlattenSeq(Prefix(s, k - 1)) \o s[k]
<1>1. PICK f : f = [i \in 1..n |-> Join(s, f, i)] /\ \A i \in 1..n : f[i] \in Seq(S)
  BY JoinsExist
<1>2. \A i \in 1..n : f[i] = Join(s, f, i)
  BY <1>1
<1>3. \A k \in 0..n : Prefix(s, k) \in Seq(Seq(S)) /\ Len(Prefix(s, k)) = k
  <2>1. ASSUME NEW k \in 0..n
        PROVE  Prefix(s, k) \in Seq(Seq(S)) /\ Len(Prefix(s, k)) = k
    <3>1. Prefix(s, k) \in [1..k -> Seq(S)]
      BY DEF Prefix
    <3>2. QED
      BY <3>1, LenOfFunction, SeqDef
  <2>2. QED
    BY <2>1
<1>4. FlattenSeq(Prefix(s, 0)) = << >>
  <2>1. 0 \in 0..n
    OBVIOUS
  <2>2. Prefix(s, 0) = << >>
    BY <1>3, <2>1, EmptySeq
  <2>3. QED
    BY <1>3, <2>1, <2>2 DEF FlattenSeq
<1>5. ASSUME NEW k \in 1..n
      PROVE  FlattenSeq(Prefix(s, k)) = f[k]
  <2> DEFINE p == Prefix(s, k)
             w == Joined(p)
  <2>1. Len(p) = k /\ \A i \in 1..k : p[i] = s[i] /\ i \in 1..n
    BY <1>3 DEF Prefix
  <2>2. \E h : h = [i \in 1..k |-> Join(p, h, i)]
    <3>1. \A i \in 1..k : p[i] \in Seq(S)
      BY <2>1
    <3> HIDE DEF p
    <3>2. k \in Nat
      OBVIOUS
    <3>3. \E h : h = [i \in 1..k |-> Join(p, h, i)] /\ \A i \in 1..k : h[i] \in Seq(S)
      BY <3>1, <3>2, JoinsExist
    <3>4. QED
      BY <3>3
  <2>3. w = [i \in 1..k |-> Join(p, w, i)]
    BY <2>1, <2>2 DEF Joined
  <2>4. FlattenSeq(p) = w[k]
    <3>1. Len(p) # 0
      BY <2>1
    <3>2. FlattenSeq(p) = w[Len(p)]
      <4> HIDE DEF p
      <4> QED BY <3>1 DEF FlattenSeq, Joined, Join
    <3>3. QED
      BY <2>1, <3>2
  <2> DEFINE Good == {i \in Nat : i + 1 <= k => w[i + 1] = f[i + 1]}
  <2> HIDE DEF w, p
  <2>5. \A i \in 1..k : w[i] = Join(p, w, i)
    BY <2>3
  <2>6. 0 \in Good
    <3>1. w[1] = s[1] /\ f[1] = s[1]
      BY <1>2, <2>1, <2>5 DEF Join
    <3>2. QED
      BY <3>1
  <2>7. ASSUME NEW i \in Nat, i \in Good
        PROVE  i + 1 \in Good
    <3>1. SUFFICES ASSUME (i + 1) + 1 <= k
                   PROVE  w[(i + 1) + 1] = f[(i + 1) + 1]
      OBVIOUS
    <3> DEFINE j == (i + 1) + 1
    <3>2. j \in 1..k /\ j # 1 /\ w[j - 1] = f[j - 1]
      BY <2>7, <3>1
    <3> HIDE DEF j
    <3>3. w[j] = w[j - 1] \o p[j] /\ f[j] = f[j - 1] \o s[j] /\ p[j] = s[j]
      BY <1>2, <2>1, <2>5, <3>2 DEF Join
    <3>4. QED
      BY <3>2, <3>3 DEF j
  <2>8. \A i \in Nat : i \in Good
    <3> HIDE DEF Good
    <3> QED BY <2>6, <2>7, NatSetInduction
  <2>9. k - 1 \in Nat /\ (k - 1) + 1 = k
    OBVIOUS
  <2>10. w[k] = f[k]
    BY <2>8, <2>9
  <2>11. QED
    BY <2>4, <2>10 DEF p
<1>6. ASSUME NEW k \in 1..n
      PROVE  FlattenSeq(Prefix(s, k)) = FlattenSeq(Prefix(s, k - 1)) \o s[k]
  <2>1. FlattenSeq(Prefix(s, k)) = f[k]
    BY <1>5
  <2>2. CASE k = 1
    <3>1. f[k] = s[k] /\ s[k] \in Seq(S)
      BY <1>2, <2>2 DEF Join
    <3>2. FlattenSeq(Prefix(s, k - 1)) = << >>
      BY <1>4, <2>2
    <3>3. << >> \o s[k] = s[k]
      BY <3>1, ConcatEmptySeq
    <3>4. QED
      BY <2>1, <3>1, <3>2, <3>3
  <2>3. CASE k # 1
    <3>1. k - 1 \in 1..n
      BY <2>3
    <3>2. FlattenSeq(Prefix(s, k - 1)) = f[k - 1]
      BY <1>5, <3>1
    <3>3. f[k] = f[k - 1] \o s[k]
      BY <1>2, <2>3 DEF Join
    <3>4. QED
      BY <2>1, <3>2, <3>3
  <2>4. QED
    BY <2>2, <2>3
<1>7. QED
  BY <1>1, <1>4, <1>5, <1>6

\* Where the elements of a flattened sequence are.
Flat(s, k) == FlattenSeq(Prefix(s, k))

InPlace(S, n, s) ==
  /\ \A k \in 0..n : Flat(s, k) \in Seq(S)
  /\ Len(Flat(s, 0)) = 0
  /\ \A k \in 1..n : Len(Flat(s, k)) = Len(Flat(s, k - 1)) + Len(s[k])
  /\ \A k \in 1..n : \A i \in 1..Len(s[k]) :
       /\ Len(Flat(s, k - 1)) + i \in 1..Len(Flat(s, n))
       /\ Flat(s, n)[Len(Flat(s, k - 1)) + i] = s[k][i]

LEMMA FlattenPlaces ==
  ASSUME NEW S, NEW n \in Nat, NEW s, \A i \in 1..n : s[i] \in Seq(S)
  PROVE  InPlace(S, n, s)
<1> DEFINE F(k) == FlattenSeq(Prefix(s, k))
<1>1. F(0) = << >> /\ \A k \in 1..n : F(k) \in Seq(S) /\ F(k) = F(k - 1) \o s[k]
  BY FlattenPrefix
<1> HIDE DEF F
<1>2. \A k \in 0..n : F(k) \in Seq(S)
  <2>1. F(0) \in Seq(S)
    BY <1>1, EmptySeq
  <2>2. \A k \in 0..n : k = 0 \/ k \in 1..n
    OBVIOUS
  <2>3. QED
    BY <1>1, <2>1, <2>2
<1>3. \A k \in 0..n : Len(F(k)) \in Nat
  BY <1>2, LenProperties
<1>4. Len(F(0)) = 0
  BY <1>1, EmptySeq
<1>5. ASSUME NEW k \in 1..n
      PROVE  /\ Len(F(k)) = Len(F(k - 1)) + Len(s[k]) /\ Len(s[k]) \in Nat
             /\ \A x \in 1..Len(F(k)) :
                  F(k)[x] = IF x <= Len(F(k - 1)) THEN F(k - 1)[x] ELSE s[k][x - Len(F(k - 1))]
  <2>1. k - 1 \in 0..n
    OBVIOUS
  <2>2. F(k - 1) \in Seq(S) /\ s[k] \in Seq(S) /\ F(k) = F(k - 1) \o s[k]
    BY <1>1, <1>2, <2>1
  <2>3. Len(F(k - 1)) \in Nat /\ Len(s[k]) \in Nat
    BY <2>2, LenProperties
  <2>4. /\ Len(F(k)) = Len(F(k - 1)) + Len(s[k])
        /\ \A x \in 1..(Len(F(k - 1)) + Len(s[k])) :
             F(k)[x] = IF x <= Len(F(k - 1)) THEN F(k - 1)[x] ELSE s[k][x - Len(F(k - 1))]
    <3> DEFINE a == F(k - 1)
               b == s[k]
    <3>1. a \in Seq(S) /\ b \in Seq(S) /\ F(k) = a \o b
      BY <2>2
    <3> HIDE DEF a, b
    <3>2. /\ Len(a \o b) = Len(a) + Len(b)
          /\ \A x \in 1..(Len(a) + Len(b)) :
               (a \o b)[x] = IF x <= Len(a) THEN a[x] ELSE b[x - Len(a)]
      BY <3>1, ConcatProperties
    <3>3. QED
      BY <3>1, <3>2 DEF a, b
  <2>5. QED
    BY <2>3, <2>4
<1> DEFINE Held(m) == \A k \in 1..m : \A i \in 1..Len(s[k]) :
                        /\ Len(F(k - 1)) + i \in 1..Len(F(m))
                        /\ F(m)[Len(F(k - 1)) + i] = s[k][i]
           Good == {m \in Nat : m <= n => Held(m)}
<1>6. 0 \in Good
  OBVIOUS
<1>7. ASSUME NEW m \in Nat, m \in Good
      PROVE  m + 1 \in Good
  <2>1. SUFFICES ASSUME m + 1 <= n, NEW k \in 1..(m + 1), NEW i \in 1..Len(s[k])
                 PROVE  /\ Len(F(k - 1)) + i \in 1..Len(F(m + 1))
                        /\ F(m + 1)[Len(F(k - 1)) + i] = s[k][i]
    OBVIOUS
  <2> DEFINE x == Len(F(k - 1)) + i
  <2>2. /\ m + 1 \in 1..n /\ (m + 1) - 1 = m /\ m \in 0..n /\ k - 1 \in 0..n
        /\ k \in 1..n
    BY <2>1
  <2>3. /\ Len(F(m + 1)) = Len(F(m)) + Len(s[m + 1]) /\ Len(s[m + 1]) \in Nat
        /\ \A y \in 1..Len(F(m + 1)) :
             F(m + 1)[y] = IF y <= Len(F(m)) THEN F(m)[y] ELSE s[m + 1][y - Len(F(m))]
    BY <1>5, <2>2
  <2>4. Len(F(m)) \in Nat /\ Len(F(k - 1)) \in Nat /\ i \in Nat \ {0}
    <3>1. Len(s[k]) \in Nat
      BY <1>5, <2>2
    <3>2. QED
      BY <1>3, <2>2, <3>1
  <2>5. CASE k = m + 1
    <3>1. Len(F(k - 1)) = Len(F(m))
      BY <2>2, <2>5
    <3>2. x \in 1..Len(F(m + 1)) /\ ~(x <= Len(F(m))) /\ x - Len(F(m)) = i
      BY <2>1, <2>3, <2>4, <2>5, <3>1
    <3>3. QED
      BY <2>3, <2>5, <3>2
  <2>6. CASE k # m + 1
    <3>1. k \in 1..m
      BY <2>6
    <3>2. x \in 1..Len(F(m)) /\ F(m)[x] = s[k][i]
      <4>1. m <= n
        BY <2>1
      <4>2. Held(m)
        BY <1>7, <4>1
      <4>3. QED
        BY <2>1, <3>1, <4>2
    <3>3. x \in 1..Len(F(m + 1)) /\ x <= Len(F(m))
      BY <2>3, <2>4, <3>2
    <3>4. QED
      BY <2>3, <3>2, <3>3
  <2>7. QED
    BY <2>5, <2>6
<1>8. \A m \in Nat : m \in Good
  <2> HIDE DEF Good
  <2> QED BY <1>6, <1>7, NatSetInduction
<1>9. Held(n)
  BY <1>8
<1>10. \A k : F(k) = Flat(s, k)
  BY DEF F, Flat
<1>11. QED
  BY <1>2, <1>4, <1>5, <1>9, <1>10 DEF InPlace

\* A graph as build_graph_view returns it.
IsView(g) ==
  /\ g \in [V -> Seq([vertex : V, times : Seq(0..TimeMax)])]
  /\ \A v \in V : \A e \in 1..Len(g[v]) :
       /\ g[v][e].vertex # v
       /\ \A d \in 1..(e - 1) : g[v][d].vertex < g[v][e].vertex
       /\ g[v][e].times # << >>
       /\ \A i, j \in 1..Len(g[v][e].times) :
            i < j => g[v][e].times[i] <= g[v][e].times[j]

LEMMA ViewShape ==
  ASSUME NEW g, IsView(g)
  PROVE  /\ V \subseteq Int /\ V = 0..(N - 1) /\ N \in Nat \ {0} /\ TimeMax \in Nat
         /\ DOMAIN g = V
         /\ \A v \in V : /\ Len(g[v]) \in Nat /\ g[v] \in Seq([vertex : V, times : Seq(0..TimeMax)])
                         /\ \A e \in 1..Len(g[v]) :
                              /\ g[v][e].vertex \in V
                              /\ g[v][e].times \in Seq(0..TimeMax)
                              /\ Len(g[v][e].times) \in Nat \ {0}
                              /\ \A i \in 1..Len(g[v][e].times) :
                                   g[v][e].times[i] \in 0..TimeMax
<1>1. V \subseteq Int /\ V = 0..(N - 1) /\ N \in Nat \ {0} /\ TimeMax \in Nat
  BY KernelAssumption DEF V
<1>2. DOMAIN g = V /\ \A v \in V : g[v] \in Seq([vertex : V, times : Seq(0..TimeMax)])
  BY DEF IsView
<1>3. \A v \in V : Len(g[v]) \in Nat
  BY <1>2, LenProperties
<1>4. ASSUME NEW v \in V, NEW e \in 1..Len(g[v])
      PROVE  /\ g[v][e].vertex \in V /\ g[v][e].times \in Seq(0..TimeMax)
             /\ Len(g[v][e].times) \in Nat \ {0}
             /\ \A i \in 1..Len(g[v][e].times) : g[v][e].times[i] \in 0..TimeMax
  <2>1. g[v][e] \in [vertex : V, times : Seq(0..TimeMax)]
    BY <1>2, ElementOfSeq
  <2>2. g[v][e].vertex \in V /\ g[v][e].times \in Seq(0..TimeMax) /\ g[v][e].times # << >>
    BY <2>1 DEF IsView
  <2>3. QED
    BY <2>2, EmptySeq, ElementOfSeq
<1>5. QED
  BY <1>1, <1>2, <1>3, <1>4

\* The flat arrays of a graph: the entries of a vertex and the timestamps of an entry
\* have intervals of positions, and there the arrays hold what the view does.
PackedFrom(p, g) ==
  /\ \A v \in 0..N : p.offsets[v] \in Nat \ {0}
  /\ \A v \in V : p.offsets[v + 1] = p.offsets[v] + Len(g[v])
  /\ \A v \in V : \A e \in 1..Len(g[v]) :
       LET x == p.offsets[v] + e - 1
       IN  /\ p.neighbors[x] = g[v][e].vertex
           /\ p.begins[x] \in Nat \ {0}
           /\ p.ends[x] = p.begins[x] + Len(g[v][e].times)
           /\ \A i \in 1..Len(g[v][e].times) :
                p.timestamps[p.begins[x] + i - 1] = g[v][e].times[i]

LEMMA PackFacts ==
  ASSUME NEW g, IsView(g)
  PROVE  PackedFrom(Pack(g), g)
<1> DEFINE E == [vertex : V, times : Seq(0..TimeMax)]
           lists == [v \in 1..N |-> g[v - 1]]
           edges(k) == Flat(lists, k)
           all == FlattenSeq(lists)
           M == Len(all)
           stamps == [e \in 1..M |-> all[e].times]
           times(k) == Flat(stamps, k)
           p == Pack(g)
<1>1. /\ N \in Nat \ {0} /\ \A v \in V : g[v] \in Seq(E) /\ v + 1 \in 1..N /\ Len(g[v]) \in Nat
      /\ \A v \in 1..N : v - 1 \in V
  <2>1. N \in Nat \ {0} /\ \A v \in V : g[v] \in Seq(E) /\ Len(g[v]) \in Nat
    BY ViewShape
  <2>2. \A v \in V : v + 1 \in 1..N
    BY <2>1 DEF V
  <2>3. \A v \in 1..N : v - 1 \in V
    BY <2>1 DEF V
  <2>4. QED
    BY <2>1, <2>2, <2>3
<1> HIDE DEF E
<1>2. \A v \in 1..N : lists[v] \in Seq(E)
  <2>1. ASSUME NEW v \in 1..N
        PROVE  g[v - 1] \in Seq(E)
    BY <1>1
  <2>2. QED
    BY <2>1
<1>3. ASSUME NEW v \in V
      PROVE  lists[v + 1] = g[v]
  <2>1. v + 1 \in 1..N /\ (v + 1) - 1 = v
    BY <1>1 DEF V
  <2> DEFINE w == v + 1
  <2>2. w \in 1..N /\ w - 1 = v
    BY <2>1
  <2> HIDE DEF w
  <2>3. lists[w] = g[v]
    BY <2>2
  <2>4. QED
    BY <2>3 DEF w
<1>4. all = edges(N)
  BY DEF Prefix, Flat
<1>5. /\ \A k \in 0..N : edges(k) \in Seq(E)
      /\ Len(edges(0)) = 0
      /\ \A k \in 1..N : Len(edges(k)) = Len(edges(k - 1)) + Len(lists[k])
      /\ \A k \in 1..N : \A i \in 1..Len(lists[k]) :
           /\ Len(edges(k - 1)) + i \in 1..M
           /\ all[Len(edges(k - 1)) + i] = lists[k][i]
  <2>1. N \in Nat
    BY <1>1
  <2> HIDE DEF lists
  <2>2. InPlace(E, N, lists)
    BY <1>2, <2>1, FlattenPlaces
  <2>3. M = Len(edges(N))
    BY <1>4
  <2> HIDE DEF M, all
  <2>4. QED
    BY <1>4, <2>2, <2>3 DEF InPlace
<1>6. M \in Nat /\ \A x \in 1..M : all[x] \in E /\ all[x].times \in Seq(0..TimeMax)
  <2>1. N \in 0..N
    BY <1>1
  <2>2. all \in Seq(E)
    BY <1>4, <1>5, <2>1
  <2> HIDE DEF all
  <2>3. M \in Nat /\ \A x \in 1..M : all[x] \in E
    BY <2>2, ElementOfSeq, LenProperties
  <2>4. \A y \in E : y.times \in Seq(0..TimeMax)
    BY DEF E
  <2>5. QED
    BY <2>3, <2>4
<1>7. \A x \in 1..M : stamps[x] \in Seq(0..TimeMax) /\ stamps[x] = all[x].times
  <2> HIDE DEF all, M
  <2> QED BY <1>6
<1>8. /\ \A k \in 0..M : times(k) \in Seq(0..TimeMax)
      /\ Len(times(0)) = 0
      /\ \A k \in 1..M : Len(times(k)) = Len(times(k - 1)) + Len(stamps[k])
      /\ \A k \in 1..M : \A i \in 1..Len(stamps[k]) :
           /\ Len(times(k - 1)) + i \in 1..Len(times(M))
           /\ times(M)[Len(times(k - 1)) + i] = stamps[k][i]
  <2> HIDE DEF stamps, M
  <2>1. \A x \in 1..M : stamps[x] \in Seq(0..TimeMax)
    BY <1>7
  <2>2. M \in Nat
    BY <1>6
  <2>3. InPlace(0..TimeMax, M, stamps)
    BY <2>1, <2>2, FlattenPlaces
  <2>4. QED
    BY <2>3 DEF InPlace
<1>9. \A k \in 0..M : FlattenSeq([e \in 1..k |-> all[e].times]) = times(k)
  <2>1. ASSUME NEW k \in 0..M
        PROVE  [e \in 1..k |-> all[e].times] = Prefix(stamps, k)
    <3> HIDE DEF all, M
    <3>1. \A e \in 1..k : stamps[e] = all[e].times
      BY <1>6
    <3>2. QED
      BY <3>1 DEF Prefix
  <2>2. QED
    BY <2>1 DEF Flat
<1>10. \A k \in 0..N : FlattenSeq([v \in 1..k |-> g[v - 1]]) = edges(k)
  <2>1. ASSUME NEW k \in 0..N
        PROVE  [v \in 1..k |-> g[v - 1]] = Prefix(lists, k)
    BY <1>1 DEF Prefix
  <2>2. QED
    BY <2>1 DEF Flat
<1>11. /\ p.offsets = [v \in 0..N |-> 1 + Len(FlattenSeq([u \in 1..v |-> g[u - 1]]))]
       /\ p.neighbors = [e \in 1..M |-> all[e].vertex]
       /\ p.begins = [x \in 1..M |-> 1 + Len(FlattenSeq([e \in 1..(x - 1) |-> all[e].times]))]
       /\ p.ends = [x \in 1..M |-> 1 + Len(FlattenSeq([e \in 1..x |-> all[e].times]))]
       /\ p.timestamps = FlattenSeq([e \in 1..M |-> all[e].times])
  BY DEF Pack
<1> HIDE DEF lists, edges, all, M, stamps, times, p
<1>12. \A v \in 0..N : p.offsets[v] = 1 + Len(edges(v))
  <2>1. \A v \in 0..N : p.offsets[v] = 1 + Len(FlattenSeq([u \in 1..v |-> g[u - 1]]))
    BY <1>11
  <2>2. QED
    BY <1>10, <2>1
<1>13. /\ \A x \in 1..M : /\ p.neighbors[x] = all[x].vertex
                          /\ p.begins[x] = 1 + Len(times(x - 1))
                          /\ p.ends[x] = 1 + Len(times(x))
       /\ p.timestamps = times(M)
  <2>1. \A x \in 1..M : x \in 0..M /\ x - 1 \in 0..M
    BY <1>6
  <2>2. M \in 0..M
    BY <1>6
  <2>3. QED
    BY <1>9, <1>11, <2>1, <2>2
<1>14. \A v \in 0..N : Len(edges(v)) \in Nat
  BY <1>5, LenProperties
<1>15. \A x \in 0..M : Len(times(x)) \in Nat
  BY <1>8, LenProperties
<1>16. ASSUME NEW v \in V
       PROVE  p.offsets[v + 1] = p.offsets[v] + Len(g[v])
  <2>1. v \in 0..N /\ v + 1 \in 0..N /\ v + 1 \in 1..N /\ (v + 1) - 1 = v
    BY <1>1 DEF V
  <2>2. Len(edges(v + 1)) = Len(edges(v)) + Len(g[v])
    BY <1>3, <1>5, <2>1
  <2>3. QED
    BY <1>1, <1>12, <1>14, <2>1, <2>2
<1>17. ASSUME NEW v \in V, NEW e \in 1..Len(g[v]), NEW x, x = p.offsets[v] + e - 1
       PROVE  /\ p.neighbors[x] = g[v][e].vertex
              /\ p.begins[x] \in Nat \ {0}
              /\ p.ends[x] = p.begins[x] + Len(g[v][e].times)
              /\ \A i \in 1..Len(g[v][e].times) :
                   p.timestamps[p.begins[x] + i - 1] = g[v][e].times[i]
  <2>1. v \in 0..N /\ v + 1 \in 1..N /\ (v + 1) - 1 = v /\ e \in Nat
    BY <1>1 DEF V
  <2>2. x = Len(edges(v)) + e
    BY <1>12, <1>14, <1>17, <2>1
  <2>3. x \in 1..M /\ all[x] = g[v][e]
    BY <1>3, <1>5, <2>1, <2>2, ZenonT(40)
  <2>4. x - 1 \in 0..M /\ x \in 0..M
    BY <1>6, <2>3
  <2>5. stamps[x] = g[v][e].times /\ Len(stamps[x]) \in Nat
    BY <1>7, <2>3, LenProperties
  <2>6. /\ p.begins[x] = 1 + Len(times(x - 1)) /\ p.ends[x] = 1 + Len(times(x))
        /\ Len(times(x)) = Len(times(x - 1)) + Len(stamps[x])
        /\ Len(times(x - 1)) \in Nat
    BY <1>8, <1>13, <1>15, <2>3, <2>4
  <2>7. ASSUME NEW i \in 1..Len(stamps[x])
        PROVE  p.timestamps[p.begins[x] + i - 1] = stamps[x][i]
    <3>1. p.begins[x] + i - 1 = Len(times(x - 1)) + i
      BY <2>5, <2>6
    <3>2. QED
      BY <1>8, <1>13, <2>3, <3>1
  <2>8. /\ p.begins[x] \in Nat \ {0} /\ p.neighbors[x] = g[v][e].vertex
        /\ p.ends[x] = p.begins[x] + Len(stamps[x])
    <3> DEFINE h == Len(times(x - 1))
               k == Len(stamps[x])
    <3>1. p.neighbors[x] = g[v][e].vertex
      BY <1>13, <2>3
    <3>2. p.begins[x] = 1 + h /\ p.ends[x] = 1 + Len(times(x)) /\ Len(times(x)) = h + k
          /\ h \in Nat /\ k \in Nat
      BY <2>5, <2>6
    <3> HIDE DEF h, k
    <3>3. p.begins[x] \in Nat \ {0} /\ p.ends[x] = p.begins[x] + k
      BY <3>2
    <3>4. QED
      BY <3>1, <3>3 DEF k
  <2>9. QED
    BY <2>5, <2>7, <2>8
<1>18. \A v \in 0..N : p.offsets[v] \in Nat \ {0}
  BY <1>12, <1>14
<1>19. PackedFrom(p, g)
  BY <1>16, <1>17, <1>18 DEF PackedFrom
<1>20. QED
  BY <1>19 DEF p

\* The timestamps of an entry, in the part of the array the packed graph gives it.
EntryFits(p, entry, x) ==
  /\ Ascending(p.timestamps, p.begins[x], p.ends[x])
  /\ p.begins[x] \in Nat \ {0}
  /\ \A i : i \in p.begins[x]..(p.ends[x] - 1)
              <=> \E j \in 1..Len(entry.times) : i = j + p.begins[x] - 1
  /\ \A j \in 1..Len(entry.times) :
       /\ p.timestamps[j + p.begins[x] - 1] = entry.times[j]
       /\ entry.times[j] \in Int

LEMMA EntryAscends ==
  ASSUME NEW g, IsView(g), NEW p, PackedFrom(p, g), NEW v \in V, NEW e \in 1..Len(g[v]),
         NEW x, x = p.offsets[v] + e - 1
  PROVE  EntryFits(p, g[v][e], x)
<1> DEFINE times == g[v][e].times
           n == Len(times)
           b == p.begins[x]
<1>1. /\ b \in Nat \ {0} /\ p.ends[x] = b + n
      /\ \A j \in 1..n : p.timestamps[b + j - 1] = times[j]
  BY DEF PackedFrom
<1>2. n \in Nat \ {0} /\ \A j \in 1..n : times[j] \in 0..TimeMax
  BY ViewShape
<1>3. \A i, j \in 1..n : i < j => times[i] <= times[j]
  BY DEF IsView
<1>4. \A j \in 1..n : times[j] \in Int
  <2>1. \A y \in 0..TimeMax : y \in Int
    OBVIOUS
  <2>2. QED
    BY <1>2, <2>1
<1> HIDE DEF times, n, b
<1>5. \A i : i \in b..(b + n - 1) => i - b + 1 \in 1..n /\ b + (i - b + 1) - 1 = i
                                    /\ (i - b + 1) + b - 1 = i
  BY <1>1, <1>2
<1>6. \A j \in 1..n : j + b - 1 \in b..(b + n - 1) /\ b + j - 1 = j + b - 1
  BY <1>1, <1>2
<1>7. \A i \in b..(b + n - 1) : p.timestamps[i] = times[i - b + 1]
  <2>1. ASSUME NEW i \in b..(b + n - 1)
        PROVE  p.timestamps[i] = times[i - b + 1]
    <3> DEFINE j == i - b + 1
    <3>1. j \in 1..n /\ b + j - 1 = i
      BY <1>5
    <3> HIDE DEF j
    <3>2. p.timestamps[i] = times[j]
      BY <1>1, <3>1
    <3>3. QED
      BY <3>2 DEF j
  <2>2. QED
    BY <2>1
<1>8. Ascending(p.timestamps, b, b + n)
  <2>1. \A i \in b..(b + n - 1) : p.timestamps[i] \in Int
    BY <1>4, <1>5, <1>7
  <2>2. ASSUME NEW i \in b..(b + n - 1), NEW j \in b..(b + n - 1), i < j
        PROVE  p.timestamps[i] <= p.timestamps[j]
    <3>1. i - b + 1 \in 1..n /\ j - b + 1 \in 1..n /\ i - b + 1 < j - b + 1
      BY <1>1, <1>2, <1>5, <2>2
    <3>2. times[i - b + 1] <= times[j - b + 1]
      BY <1>3, <3>1
    <3>3. QED
      BY <1>7, <3>2
  <2>3. QED
    BY <1>1, <1>2, <2>1, <2>2 DEF Ascending
<1>9. \A i : i \in b..(b + n - 1) <=> \E j \in 1..n : i = j + b - 1
  <2>1. ASSUME NEW i \in b..(b + n - 1)
        PROVE  \E j \in 1..n : i = j + b - 1
    BY <1>5
  <2>2. QED
    BY <1>6, <2>1
<1>10. \A j \in 1..n : p.timestamps[j + b - 1] = times[j]
  BY <1>1, <1>6
<1>11. p.ends[x] = b + n
  BY <1>1
<1>12. QED
  <2>1. Ascending(p.timestamps, b, p.ends[x])
    BY <1>8, <1>11
  <2>2. \A i : i \in b..(p.ends[x] - 1) <=> \E j \in 1..n : i = j + b - 1
    <3>1. b + n - 1 = p.ends[x] - 1
      BY <1>1, <1>2, <1>11
    <3>2. QED
      BY <1>9, <3>1, Zenon
  <2>3. \A j \in 1..n : p.timestamps[j + b - 1] = times[j] /\ times[j] \in Int
    BY <1>4, <1>10
  <2>4. QED
    BY <1>1, <2>1, <2>2, <2>3 DEF EntryFits, times, n, b

\* What the searches of an edge find in its part of the array.
EntryAgrees(p, entry, v, x, start) ==
  /\ \A end \in Int :
       Positions(DeviceAfter(p.timestamps, p.begins[x], p.ends[x], start, end)) =
         {i + p.begins[x] - 1 : i \in TimestampsAfter(entry, start, end)}
  /\ \A width \in Int, root \in V :
       DeviceHasTimestamp(p.timestamps, p.begins[x], p.ends[x], start, width, root > v) =
         /\ width >= 0 /\ start + width <= TimeMax
         /\ HasTimestamp(entry, v, root, start, width)

LEMMA EntrySearches ==
  ASSUME NEW g, IsView(g), NEW p, PackedFrom(p, g), NEW v \in V, NEW e \in 1..Len(g[v]),
         NEW x, x = p.offsets[v] + e - 1, NEW start \in 0..TimeMax
  PROVE  EntryAgrees(p, g[v][e], v, x, start)
<1> DEFINE values == p.timestamps
           b == p.begins[x]
           n == p.ends[x]
           entry == g[v][e]
           times == entry.times
<1>1. /\ Ascending(values, b, n) /\ b \in Nat \ {0}
      /\ \A i : i \in b..(n - 1) <=> \E j \in 1..Len(times) : i = j + b - 1
      /\ \A j \in 1..Len(times) : values[j + b - 1] = times[j] /\ times[j] \in Int
  <2>1. EntryFits(p, g[v][e], x)
    BY EntryAscends
  <2>2. QED
    BY <2>1 DEF EntryFits
<1>2. start \in Int /\ TimeMax \in Int /\ V \subseteq Int
  BY ViewShape
<1> HIDE DEF values, b, n
<1>3. ASSUME NEW end \in Int
      PROVE  Positions(DeviceAfter(values, b, n, start, end)) =
               {i + b - 1 : i \in TimestampsAfter(entry, start, end)}
  <2>1. Positions(DeviceAfter(values, b, n, start, end)) =
          {i \in b..(n - 1) : start < values[i] /\ values[i] <= end}
    BY <1>1, <1>2, AfterFinds
  <2>2. TimestampsAfter(entry, start, end) =
          {j \in 1..Len(times) : start < times[j] /\ times[j] <= end}
    BY DEF TimestampsAfter
  <2> HIDE DEF entry, times
  <2>3. QED
    BY <1>1, <2>1, <2>2, ZenonT(40)
<1>4. ASSUME NEW width \in Int, NEW root \in V
      PROVE  DeviceHasTimestamp(values, b, n, start, width, root > v) =
               /\ width >= 0 /\ start + width <= TimeMax
               /\ HasTimestamp(entry, v, root, start, width)
  <2> DEFINE In(t) == /\ IF root > v THEN t >= start ELSE t > start
                      /\ t <= start + width
  <2>1. (root > v) \in BOOLEAN
    BY <1>2
  <2>2. DeviceHasTimestamp(values, b, n, start, width, root > v) =
          /\ width >= 0 /\ start + width <= TimeMax
          /\ \E i \in b..(n - 1) : In(values[i])
    <3> DEFINE inclusive == root > v
    <3>1. inclusive \in BOOLEAN
      BY <2>1
    <3> HIDE DEF inclusive
    <3>2. DeviceHasTimestamp(values, b, n, start, width, inclusive) =
            HasInWindow(values, b, n, start, width, inclusive)
      BY <1>1, <1>2, <3>1, WindowFinds
    <3>3. QED
      BY <3>2 DEF inclusive, HasInWindow
  <2>3. HasTimestamp(entry, v, root, start, width) <=> \E j \in 1..Len(times) : In(times[j])
    BY DEF HasTimestamp
  <2> HIDE DEF entry, times, In
  <2>4. (\E i \in b..(n - 1) : In(values[i])) <=> \E j \in 1..Len(times) : In(times[j])
    BY <1>1
  <2>5. HasTimestamp(entry, v, root, start, width) \in BOOLEAN
    BY DEF HasTimestamp
  <2>6. QED
    BY <2>2, <2>3, <2>4, <2>5
<1>5. QED
  BY <1>3, <1>4 DEF EntryAgrees, values, b, n, entry

-----------------------------------------------------------------------------
(***************************************************************************)
(* The cycle union.                                                        *)
(***************************************************************************)
LEMMA VertexSet ==
  /\ IsFiniteSet(V) /\ Cardinality(V) = N /\ N \in Nat \ {0} /\ TimeMax \in Nat
  /\ V \subseteq Int
<1>1. N \in Nat \ {0} /\ TimeMax \in Nat
  BY KernelAssumption
<1>2. IsFiniteSet(0..(N - 1)) /\ Cardinality(0..(N - 1)) = N
  <2>1. 0 \in Int /\ N - 1 \in Int /\ ~(0 > N - 1) /\ (N - 1) - 0 + 1 = N
    BY <1>1
  <2>2. QED
    BY <2>1, FS_Interval
<1>3. V \subseteq Int
  BY DEF V
<1>4. QED
  BY <1>1, <1>2, <1>3 DEF V

\* What the breadth-first search visits holds the vertex it starts from and, of
\* each vertex in it, the ends.
IsClosedUnder(R, ends) == \A u \in R : ends[u] \subseteq R

LEMMA ReachableClosed ==
  ASSUME NEW g, DOMAIN g = V, NEW v \in V, NEW ends \in [V -> SUBSET V]
  PROVE  /\ Reachable(g, v, ends) \in SUBSET V
         /\ v \in Reachable(g, v, ends)
         /\ IsClosedUnder(Reachable(g, v, ends), ends)
<1> DEFINE Grown(R) == R \cup UNION {ends[u] : u \in R}
           step == [R \in SUBSET V |-> Grown(R)]
           Within(f) == [k \in 0..N |-> IF k = 0 THEN {v} ELSE Grown(f[k - 1])]
           within == CHOOSE f : f = Within(f)
<1>1. N \in Nat /\ IsFiniteSet(V) /\ Cardinality(V) = N
  BY VertexSet
<1>2. Reachable(g, v, ends) = within[N]
  BY <1>1 DEF Reachable
<1>3. \A R \in SUBSET V : Grown(R) \in SUBSET V /\ R \subseteq Grown(R)
  OBVIOUS
<1>4. /\ step \in [SUBSET V -> SUBSET V] /\ {v} \in SUBSET V
      /\ \A R \in SUBSET V : R \subseteq step[R]
      /\ \A R \in SUBSET V : step[R] = Grown(R)
  <2> HIDE DEF Grown
  <2> QED BY <1>3
<1> HIDE DEF step, Grown
<1>5. PICK w : AreIterates(w, SUBSET V, {v}, step, N)
  <2> DEFINE D == SUBSET V
  <2>1. {v} \in D /\ step \in [D -> D]
    BY <1>4
  <2> HIDE DEF D
  <2>2. \E w : AreIterates(w, D, {v}, step, N)
    BY <1>1, <2>1, IteratesExist
  <2>3. QED
    BY <2>2 DEF D
<1>6. w \in [0..N -> SUBSET V] /\ w[0] = {v} /\ \A k \in 1..N : w[k] = step[w[k - 1]]
  BY <1>5 DEF AreIterates
<1>7. w = Within(w)
  <2>1. ASSUME NEW k \in 0..N
        PROVE  w[k] = IF k = 0 THEN {v} ELSE Grown(w[k - 1])
    <3>1. CASE k = 0
      BY <1>6, <3>1
    <3>2. CASE k # 0
      <4>1. k \in 1..N /\ k - 1 \in 0..N
        BY <1>1, <3>2
      <4>2. QED
        BY <1>4, <1>6, <3>2, <4>1
    <3>3. QED
      BY <3>1, <3>2
  <2>2. QED
    BY <1>6, <2>1
<1>8. within = Within(within)
  <2> HIDE DEF Within
  <2> QED BY <1>7
<1> HIDE DEF within
<1>9. within[0] = {v} /\ \A k \in 1..N : within[k] = Grown(within[k - 1])
  <2>1. 0 \in 0..N /\ \A k \in 1..N : k \in 0..N /\ k # 0
    BY <1>1
  <2>2. QED
    BY <1>8, <2>1
<1> HIDE DEF Within
<1> DEFINE Same == {k \in Nat : k <= N => within[k] = w[k]}
<1>10. 0 \in Same
  BY <1>6, <1>9
<1>11. ASSUME NEW k \in Nat, k \in Same
       PROVE  k + 1 \in Same
  <2>1. SUFFICES ASSUME k + 1 <= N
                 PROVE  within[k + 1] = w[k + 1]
    OBVIOUS
  <2>2. k + 1 \in 1..N /\ (k + 1) - 1 = k /\ k <= N /\ k \in 0..N
    BY <1>1, <2>1
  <2>3. within[k + 1] = Grown(within[k]) /\ w[k + 1] = step[w[k]] /\ within[k] = w[k]
    BY <1>6, <1>9, <1>11, <2>2
  <2>4. w[k] \in SUBSET V
    BY <1>6, <2>2
  <2>5. QED
    BY <1>4, <2>3, <2>4
<1>12. \A k \in Nat : k \in Same
  <2> HIDE DEF Same
  <2> QED BY <1>10, <1>11, NatSetInduction
<1>13. within[N] = w[N]
  BY <1>1, <1>12
<1>14. IsLeastClosed(w[N], V, w[0], step)
  <2>1. Cardinality(V) <= N
    BY <1>1
  <2>2. QED
    BY <1>1, <1>4, <1>6, <2>1, IteratesClose
<1>15. w[N] \in SUBSET V /\ {v} \subseteq w[N] /\ step[w[N]] = w[N]
  BY <1>6, <1>14 DEF IsLeastClosed
<1>16. Grown(w[N]) = w[N]
  BY <1>4, <1>15
<1>17. IsClosedUnder(w[N], ends)
  BY <1>16 DEF Grown, IsClosedUnder
<1>18. QED
  BY <1>2, <1>13, <1>15, <1>17

\* A sequence of events, each but the first in the window of the first and after
\* the one before, from where that one leads.
Linked(g, width, p) ==
  \A i \in 2..Len(p) :
    /\ p[i].root = Target(g, p[i - 1])
    /\ p[i].at \in TimestampsAfter(g[p[i].root][p[i].entry], StartTime(g, p[i - 1]),
                                   StartTime(g, p[1]) + width)

\* Appending an event that continues the sequence.
LEMMA LinkedAppend ==
  ASSUME NEW g, NEW width, NEW p \in Seq(Starts(g)), Len(p) \in Nat \ {0}, Linked(g, width, p),
         NEW x \in Starts(g),
         Continues(g, width, Front(Append(p, x)), Last(Append(p, x)))
  PROVE  /\ Append(p, x) \in Seq(Starts(g)) /\ Len(Append(p, x)) = Len(p) + 1
         /\ Linked(g, width, Append(p, x))
<1> DEFINE q == Append(p, x)
           n == Len(p)
<1>1. /\ q \in Seq(Starts(g)) /\ Len(q) = n + 1 /\ n \in Nat \ {0}
      /\ \A i \in 1..n : q[i] = p[i]
      /\ q[n + 1] = x
  BY AppendProperties
<1> HIDE DEF q, n
<1>2. Last(q) = x
  BY <1>1 DEF Last
<1>3. Front(q) = p
  <2>1. Front(q) = SubSeq(q, 1, n)
    <3>1. Len(q) - 1 = n
      BY <1>1
    <3>2. QED
      BY <3>1 DEF Front
  <2>2. Front(q) = [i \in 1..n |-> q[i]]
    <3>1. 1 \in 1..(Len(q) + 1) /\ n \in 0..Len(q) /\ n - 1 + 1 = n
      BY <1>1
    <3>2. SubSeq(q, 1, n) = [i \in 1..n |-> q[i]]
      BY <1>1 DEF SubSeq
    <3>3. QED
      BY <2>1, <3>2
  <2>3. p = [i \in 1..n |-> p[i]]
    BY LenProperties DEF n
  <2>4. QED
    BY <1>1, <2>2, <2>3
<1>4. Last(p) = p[n]
  BY DEF Last, n
<1>5. Continues(g, width, p, x)
  BY <1>2, <1>3 DEF q
<1>6. /\ x.root = Target(g, p[n])
      /\ x.at \in TimestampsAfter(g[x.root][x.entry], StartTime(g, p[n]), StartTime(g, p[1]) + width)
  BY <1>4, <1>5 DEF Continues
<1>7. ASSUME NEW i \in 2..(n + 1)
      PROVE  /\ q[i].root = Target(g, q[i - 1])
             /\ q[i].at \in TimestampsAfter(g[q[i].root][q[i].entry], StartTime(g, q[i - 1]),
                                            StartTime(g, q[1]) + width)
  <2>1. 1 \in 1..n /\ i - 1 \in 1..n /\ q[i - 1] = p[i - 1] /\ q[1] = p[1]
    BY <1>1
  <2>2. CASE i = n + 1
    <3>1. i - 1 = n
      BY <1>1, <2>2
    <3>2. QED
      BY <1>1, <1>6, <2>1, <2>2, <3>1
  <2>3. CASE i # n + 1
    <3>1. i \in 2..n /\ q[i] = p[i]
      BY <1>1, <2>3
    <3>2. /\ p[i].root = Target(g, p[i - 1])
          /\ p[i].at \in TimestampsAfter(g[p[i].root][p[i].entry], StartTime(g, p[i - 1]),
                                         StartTime(g, p[1]) + width)
      BY <3>1 DEF Linked, n
    <3>3. QED
      BY <2>1, <3>1, <3>2
  <2>4. QED
    BY <2>2, <2>3
<1>8. Linked(g, width, q)
  BY <1>1, <1>7 DEF Linked
<1>9. QED
  BY <1>1, <1>8 DEF q, n

\* The paths the temporal cycles are made of are such sequences.
LEMMA PathsLinked ==
  ASSUME NEW g, NEW width, NEW n \in Nat \ {0}, NEW p \in TemporalPaths(g, width, n)
  PROVE  p \in Seq(Starts(g)) /\ Len(p) = n /\ Linked(g, width, p)
<1> DEFINE S == Starts(g)
           D == SUBSET Seq(S)
           a == {<<s>> : s \in S}
           Taken(q) == /\ Continues(g, width, Front(q), Last(q))
                       /\ ~Visits(g, q, Target(g, Last(q)))
           Grown(Q) == {q \in {Append(r, x) : r \in Q, x \in S} : Taken(q)}
           step == [Q \in D |-> Grown(Q)]
           Paths(f) == [k \in 1..n |-> IF k = 1 THEN a ELSE Grown(f[k - 1])]
           paths == CHOOSE f : f = Paths(f)
<1>1. p \in paths[n]
  BY DEF TemporalPaths
<1> HIDE DEF Taken
<1>2. \A Q \in D : Grown(Q) \in D
  <2>1. ASSUME NEW Q \in D, NEW r \in Q, NEW x \in S
        PROVE  Append(r, x) \in Seq(S)
    <3> HIDE DEF S
    <3> QED BY AppendProperties
  <2>2. QED
    BY <2>1
<1>3. a \in D
  <2>1. ASSUME NEW s \in S
        PROVE  <<s>> \in Seq(S)
    <3> HIDE DEF S
    <3> QED OBVIOUS
  <2>2. QED
    BY <2>1
<1>4. step \in [D -> D] /\ \A Q \in D : step[Q] = Grown(Q)
  <2> HIDE DEF Grown, D
  <2> QED BY <1>2
<1> HIDE DEF step
<1>5. \E w : AreIterates(w, D, a, step, n - 1)
  <2>1. n - 1 \in Nat
    OBVIOUS
  <2> HIDE DEF D, a
  <2>2. QED
    BY <1>3, <1>4, <2>1, IteratesExist
<1>6. PICK w : AreIterates(w, D, a, step, n - 1)
  BY <1>5
<1> HIDE DEF D, a, Grown
<1>7. w \in [0..(n - 1) -> D] /\ w[0] = a /\ \A k \in 1..(n - 1) : w[k] = step[w[k - 1]]
  BY <1>6 DEF AreIterates
<1> DEFINE f == [k \in 1..n |-> w[k - 1]]
<1>8. f = Paths(f)
  <2>1. ASSUME NEW k \in 1..n
        PROVE  f[k] = IF k = 1 THEN a ELSE Grown(f[k - 1])
    <3>1. CASE k = 1
      BY <1>7, <3>1
    <3>2. CASE k # 1
      <4>1. k - 1 \in 1..(n - 1) /\ k - 1 \in 1..n /\ (k - 1) - 1 \in 0..(n - 1)
        BY <3>2
      <4>2. f[k] = w[k - 1] /\ f[k - 1] = w[(k - 1) - 1]
        BY <4>1
      <4>3. w[k - 1] = step[w[(k - 1) - 1]] /\ w[(k - 1) - 1] \in D
        BY <1>7, <4>1
      <4>4. f[k] = Grown(f[k - 1])
        BY <1>4, <4>2, <4>3
      <4>5. QED
        BY <3>2, <4>4
    <3>3. QED
      BY <3>1, <3>2
  <2>2. QED
    BY <2>1
<1> HIDE DEF f
<1>9. paths = Paths(paths)
  <2> HIDE DEF Paths
  <2> QED BY <1>8
<1> HIDE DEF paths
<1>10. paths[1] = a /\ \A k \in 1..n : k # 1 => paths[k] = Grown(paths[k - 1])
  BY <1>9
<1> HIDE DEF Paths
<1> DEFINE Fine(k, q) == q \in Seq(S) /\ Len(q) = k /\ Linked(g, width, q)
           Good == {k \in Nat : k + 1 <= n => \A q \in paths[k + 1] : Fine(k + 1, q)}
<1>11. 0 \in Good
  <2>1. ASSUME NEW s \in S
        PROVE  Fine(1, <<s>>)
    <3>1. <<s>> \in Seq(S) /\ Len(<<s>>) = 1
      <4> HIDE DEF S
      <4> QED OBVIOUS
    <3>2. \A i \in 2..1 : FALSE
      OBVIOUS
    <3>3. QED
      BY <3>1, <3>2 DEF Linked
  <2> HIDE DEF Fine, S
  <2>2. \A q \in paths[1] : Fine(1, q)
    BY <1>10, <2>1 DEF a
  <2>3. QED
    BY <2>2
<1>12. ASSUME NEW k \in Nat, k \in Good
       PROVE  k + 1 \in Good
  <2>1. SUFFICES ASSUME (k + 1) + 1 <= n, NEW q \in paths[(k + 1) + 1]
                 PROVE  Fine((k + 1) + 1, q)
    OBVIOUS
  <2>2. (k + 1) + 1 \in 1..n /\ (k + 1) + 1 # 1 /\ ((k + 1) + 1) - 1 = k + 1 /\ k + 1 <= n
    BY <2>1
  <2>3. q \in Grown(paths[k + 1])
    BY <1>10, <2>1, <2>2
  <2>4. PICK r \in paths[k + 1], x \in S : q = Append(r, x)
    BY <2>3 DEF Grown
  <2>5. Taken(q)
    BY <2>3 DEF Grown
  <2>6. Continues(g, width, Front(Append(r, x)), Last(Append(r, x)))
    BY <2>4, <2>5 DEF Taken
  <2>7. r \in Seq(S) /\ Len(r) = k + 1 /\ Linked(g, width, r) /\ Len(r) \in Nat \ {0}
    BY <1>12, <2>2
  <2>8. QED
    BY <2>4, <2>6, <2>7, LinkedAppend
<1>13. \A k \in Nat : k \in Good
  <2> HIDE DEF Good
  <2> QED BY <1>11, <1>12, NatSetInduction
<1>14. n - 1 \in Good /\ (n - 1) + 1 = n /\ n - 1 \in Nat
  BY <1>13
<1>15. \A q \in paths[n] : Fine(n, q)
  BY <1>14
<1>16. QED
  BY <1>1, <1>15

\* A temporal cycle is such a sequence, and its last event leads back to the first.
LEMMA CycleLinked ==
  ASSUME NEW g, NEW width, NEW max \in Nat, NEW c \in TemporalCycles(g, width, max)
  PROVE  /\ c \in Seq(Starts(g)) /\ Len(c) \in Nat \ {0, 1} /\ Linked(g, width, c)
         /\ Target(g, c[Len(c)]) = c[1].root
<1>0. PICK n \in 1..(max - 1) :
         c \in {q \in {Append(p, x) : p \in TemporalPaths(g, width, n), x \in Starts(g)} :
                 /\ Continues(g, width, Front(q), Last(q))
                 /\ Target(g, Last(q)) = q[1].root}
  BY DEF TemporalCycles
<1>1. PICK p \in TemporalPaths(g, width, n), x \in Starts(g) :
         /\ c = Append(p, x)
         /\ Continues(g, width, Front(c), Last(c))
         /\ Target(g, Last(c)) = c[1].root
  BY <1>0
<1>2. n \in Nat \ {0}
  OBVIOUS
<1>3. p \in Seq(Starts(g)) /\ Len(p) = n /\ Linked(g, width, p)
  BY <1>2, PathsLinked
<1>4. Continues(g, width, Front(Append(p, x)), Last(Append(p, x)))
  BY <1>1
<1>5. c \in Seq(Starts(g)) /\ Len(c) = n + 1 /\ Linked(g, width, c)
  BY <1>1, <1>2, <1>3, <1>4, LinkedAppend
<1>6. QED
  BY <1>1, <1>2, <1>5 DEF Last

\* The events of a cycle after the first are after the start and in its window.
LEMMA CycleEvents ==
  ASSUME NEW g, IsView(g), NEW width \in Int, NEW c, c \in Seq(Starts(g)),
         Len(c) \in Nat \ {0}, Linked(g, width, c)
  PROVE  \A i \in 1..Len(c) :
           /\ c[i].root \in V /\ c[i].entry \in 1..Len(g[c[i].root])
           /\ StartTime(g, c[i]) \in Int
           /\ i > 1 => /\ StartTime(g, c[i]) > StartTime(g, c[1])
                       /\ StartTime(g, c[i]) <= StartTime(g, c[1]) + width
                       /\ c[i].at \in TimestampsAfter(g[c[i].root][c[i].entry],
                                        StartTime(g, c[1]), StartTime(g, c[1]) + width)
<1>1. ASSUME NEW i \in 1..Len(c)
      PROVE  /\ c[i].root \in V /\ c[i].entry \in 1..Len(g[c[i].root])
             /\ StartTime(g, c[i]) \in Int
  <2>1. c[i] \in Starts(g)
    BY ElementOfSeq
  <2>a. DOMAIN g = V
    BY DEF IsView
  <2>b. PICK v \in V : c[i] \in UNION {{[root |-> v, entry |-> e, at |-> k] :
                                         k \in 1..Len(g[v][e].times)} : e \in 1..Len(g[v])}
    BY <2>1, <2>a DEF Starts
  <2>c. PICK e \in 1..Len(g[v]) : c[i] \in {[root |-> v, entry |-> e, at |-> k] :
                                            k \in 1..Len(g[v][e].times)}
    BY <2>b
  <2>2. PICK k \in 1..Len(g[v][e].times) : c[i] = [root |-> v, entry |-> e, at |-> k]
    BY <2>c
  <2>3. g[v][e].times[k] \in Int
    <3>1. g[v] \in Seq([vertex : V, times : Seq(0..TimeMax)])
      BY DEF IsView
    <3>2. g[v][e] \in [vertex : V, times : Seq(0..TimeMax)]
      BY <3>1, ElementOfSeq
    <3>3. g[v][e].times \in Seq(0..TimeMax)
      BY <3>2
    <3>4. g[v][e].times[k] \in 0..TimeMax
      BY <3>3, ElementOfSeq
    <3>5. QED
      BY <3>4
  <2>4. c[i].root = v /\ c[i].entry = e /\ c[i].at = k
    BY <2>2
  <2>5. QED
    BY <2>3, <2>4 DEF StartTime
<1> DEFINE T(i) == StartTime(g, c[i])
           E == T(1) + width
           entry(i) == g[c[i].root][c[i].entry]
<1>2. ASSUME NEW i \in 2..Len(c)
      PROVE  T(i - 1) < T(i) /\ T(i) <= E /\ c[i].at \in 1..Len(entry(i).times)
             /\ T(i) = entry(i).times[c[i].at]
  <2>1. c[i].at \in TimestampsAfter(entry(i), T(i - 1), E)
    BY DEF Linked
  <2>2. QED
    BY <2>1 DEF TimestampsAfter, StartTime
<1>3. \A i \in 1..Len(c) : T(i) \in Int
  BY <1>1
<1> HIDE DEF T, E, entry
<1> DEFINE Good == {k \in Nat : k + 2 <= Len(c) => T(1) < T(k + 2)}
<1>4. 0 \in Good
  <2>1. SUFFICES ASSUME 2 <= Len(c)
                 PROVE  T(1) < T(2)
    OBVIOUS
  <2>2. 2 \in 2..Len(c) /\ 2 - 1 = 1
    BY <2>1
  <2>3. QED
    BY <1>2, <2>2
<1>5. ASSUME NEW k \in Nat, k \in Good
      PROVE  k + 1 \in Good
  <2>1. SUFFICES ASSUME (k + 1) + 2 <= Len(c)
                 PROVE  T(1) < T((k + 1) + 2)
    OBVIOUS
  <2> DEFINE j == (k + 1) + 2
  <2>2. /\ j \in 2..Len(c) /\ j - 1 = k + 2 /\ k + 2 <= Len(c) /\ k + 2 \in 1..Len(c)
        /\ j \in 1..Len(c) /\ 1 \in 1..Len(c)
    BY <2>1
  <2> HIDE DEF j
  <2>3. T(1) < T(k + 2) /\ T(k + 2) < T(j)
    BY <1>2, <1>5, <2>2
  <2>4. T(1) \in Int /\ T(k + 2) \in Int /\ T(j) \in Int
    BY <1>3, <2>2
  <2>5. T(1) < T(j)
    BY <2>3, <2>4
  <2>6. QED
    BY <2>5 DEF j
<1>6. \A k \in Nat : k \in Good
  <2> HIDE DEF Good
  <2> QED BY <1>4, <1>5, NatSetInduction
<1>7. ASSUME NEW i \in 2..Len(c)
      PROVE  T(1) < T(i)
  <2>1. i - 2 \in Nat /\ (i - 2) + 2 = i /\ i <= Len(c)
    OBVIOUS
  <2>2. i - 2 \in Good
    BY <1>6, <2>1
  <2>3. QED
    BY <2>1, <2>2
<1>8. ASSUME NEW i \in 1..Len(c), i > 1
      PROVE  /\ T(i) > T(1) /\ T(i) <= E /\ c[i].at \in TimestampsAfter(entry(i), T(1), E)
  <2>1. i \in 2..Len(c) /\ 1 \in 1..Len(c)
    BY <1>8
  <2>2. T(1) < T(i) /\ T(i) <= E /\ c[i].at \in 1..Len(entry(i).times)
        /\ T(i) = entry(i).times[c[i].at] /\ T(1) \in Int /\ T(i) \in Int
    BY <1>2, <1>3, <1>7, <2>1
  <2>3. QED
    BY <2>2 DEF TimestampsAfter
<1>9. QED
  BY <1>1, <1>8 DEF T, E, entry

\* The vertices of a temporal cycle are in the union of its start.
LEMMA UnionHoldsCycle ==
  ASSUME NEW g, IsView(g), NEW width \in Int, NEW max \in Nat,
         NEW c \in TemporalCycles(g, width, max)
  PROVE  \A i \in 1..Len(c) :
           c[i].root \in Union(g, c[1].root, Target(g, c[1]), StartTime(g, c[1]), width)
<1> DEFINE L == Len(c)
           start == StartTime(g, c[1])
           E == start + width
           root == c[1].root
           first == Target(g, c[1])
           onward == [u \in V |-> {w \in V : HasEventAfterStart(g, u, w, start, E)}]
           backward == [u \in V |-> {w \in V : HasEventAfterStart(g, w, u, start, E)}]
           F == Reachable(g, first, onward)
           B == Reachable(g, root, backward)
<1>1. /\ c \in Seq(Starts(g)) /\ L \in Nat \ {0, 1} /\ Linked(g, width, c)
      /\ Target(g, c[L]) = root
  BY CycleLinked
<1>2. \A i \in 1..L : /\ c[i].root \in V /\ c[i].entry \in 1..Len(g[c[i].root])
                      /\ i > 1 => c[i].at \in TimestampsAfter(g[c[i].root][c[i].entry], start, E)
  <2>1. Len(c) \in Nat \ {0}
    BY <1>1
  <2>2. QED
    BY <1>1, <2>1, CycleEvents
<1>3. DOMAIN g = V
  BY DEF IsView
<1>4. \A i \in 2..L : c[i].root = Target(g, c[i - 1])
  BY <1>1 DEF Linked
<1>5. /\ 1 \in 1..L /\ 2 \in 2..L /\ 2 \in 1..L /\ L \in 2..L /\ L \in 1..L
      /\ root \in V /\ first = c[2].root /\ first \in V
  <2>1. 1 \in 1..L /\ 2 \in 2..L /\ 2 \in 1..L /\ L \in 2..L /\ L \in 1..L /\ 2 - 1 = 1
    <3> HIDE DEF L
    <3> QED BY <1>1
  <2>2. c[2].root = Target(g, c[1])
    BY <1>4, <2>1
  <2>3. QED
    BY <1>2, <2>1, <2>2
<1>6. Union(g, root, first, start, width) = F \cap B
  BY <1>3 DEF Union, ForwardReachable, ReverseReachable
<1>7. /\ onward \in [V -> SUBSET V] /\ backward \in [V -> SUBSET V]
      /\ \A u, w \in V : HasEventAfterStart(g, u, w, start, E)
                           => w \in onward[u] /\ u \in backward[w]
  <2> HIDE DEF start, E
  <2> QED OBVIOUS
<1>8. F \in SUBSET V /\ first \in F /\ IsClosedUnder(F, onward)
      /\ B \in SUBSET V /\ root \in B /\ IsClosedUnder(B, backward)
  <2> HIDE DEF onward, backward, first, root
  <2> QED BY <1>3, <1>5, <1>7, ReachableClosed
<1>9. ASSUME NEW i \in 2..L
      PROVE  HasEventAfterStart(g, c[i].root, Target(g, c[i]), start, E)
  <2>1. i \in 1..L /\ i > 1
    BY <1>1
  <2>2. /\ c[i].entry \in 1..Len(g[c[i].root])
        /\ TimestampsAfter(g[c[i].root][c[i].entry], start, E) # {}
    BY <1>2, <2>1
  <2>3. g[c[i].root][c[i].entry].vertex = Target(g, c[i])
    BY DEF Target
  <2>4. QED
    BY <2>2, <2>3 DEF HasEventAfterStart
<1> HIDE DEF onward, backward, first, root, start, E, F, B
<1>10. ASSUME NEW i \in 2..L
       PROVE  /\ Target(g, c[i]) \in V
              /\ c[i].root \in F => Target(g, c[i]) \in F
              /\ Target(g, c[i]) \in B => c[i].root \in B
  <2>1. Target(g, c[i]) \in V /\ c[i].root \in V
    <3>1. CASE i = L
      BY <1>1, <1>2, <1>5, <3>1
    <3>2. CASE i # L
      <4>1. i + 1 \in 2..L /\ (i + 1) - 1 = i /\ i \in 1..L /\ i + 1 \in 1..L
        BY <1>1, <3>2
      <4>2. c[i + 1].root = Target(g, c[i])
        BY <1>4, <4>1
      <4>3. QED
        BY <1>2, <4>1, <4>2
    <3>3. QED
      BY <3>1, <3>2
  <2>2. Target(g, c[i]) \in onward[c[i].root] /\ c[i].root \in backward[Target(g, c[i])]
    BY <1>7, <1>9, <2>1
  <2>3. c[i].root \in F => onward[c[i].root] \subseteq F
    BY <1>8 DEF IsClosedUnder
  <2>4. Target(g, c[i]) \in B => backward[Target(g, c[i])] \subseteq B
    BY <1>8 DEF IsClosedUnder
  <2>5. QED
    BY <2>1, <2>2, <2>3, <2>4
<1> DEFINE Ahead == {k \in Nat : k + 2 <= L => c[k + 2].root \in F}
<1>11. 0 \in Ahead
  BY <1>5, <1>8
<1>12. ASSUME NEW k \in Nat, k \in Ahead
       PROVE  k + 1 \in Ahead
  <2>1. SUFFICES ASSUME (k + 1) + 2 <= L
                 PROVE  c[(k + 1) + 2].root \in F
    OBVIOUS
  <2> DEFINE j == k + 2
  <2>2. j \in 2..L /\ j + 1 \in 2..L /\ (j + 1) - 1 = j /\ j <= L /\ (k + 1) + 2 = j + 1
    BY <1>1, <2>1
  <2>3. c[j].root \in F
    BY <1>12, <2>2
  <2> HIDE DEF j
  <2>4. c[j + 1].root = Target(g, c[j])
    BY <1>4, <2>2
  <2>5. QED
    BY <1>10, <2>2, <2>3, <2>4
<1>13. \A k \in Nat : k \in Ahead
  <2> HIDE DEF Ahead
  <2> QED BY <1>11, <1>12, NatSetInduction
<1>14. ASSUME NEW i \in 2..L
       PROVE  c[i].root \in F
  <2>1. i - 2 \in Nat /\ (i - 2) + 2 = i /\ i <= L
    BY <1>1
  <2>2. i - 2 \in Ahead
    BY <1>13, <2>1
  <2>3. QED
    BY <2>1, <2>2
<1>15. root \in F
  BY <1>1, <1>5, <1>10, <1>14
<1> DEFINE Back == {k \in Nat : k + 2 <= L => c[L - k].root \in B}
<1>16. 0 \in Back
  <2>1. c[L].root \in B
    BY <1>1, <1>5, <1>8, <1>10
  <2>2. L - 0 = L
    BY <1>1
  <2>3. QED
    BY <2>1, <2>2
<1>17. ASSUME NEW k \in Nat, k \in Back
       PROVE  k + 1 \in Back
  <2>1. SUFFICES ASSUME (k + 1) + 2 <= L
                 PROVE  c[L - (k + 1)].root \in B
    OBVIOUS
  <2> DEFINE j == L - (k + 1)
  <2>2. j \in 2..L /\ j + 1 = L - k /\ j + 1 \in 2..L /\ (j + 1) - 1 = j /\ k + 2 <= L
    BY <1>1, <2>1
  <2>3. c[L - k].root \in B
    BY <1>17, <2>2
  <2> HIDE DEF j
  <2>4. c[j + 1].root \in B
    BY <2>2, <2>3
  <2>5. c[j + 1].root = Target(g, c[j])
    BY <1>4, <2>2
  <2>6. c[j].root \in B
    BY <1>10, <2>2, <2>4, <2>5
  <2>7. QED
    BY <2>6 DEF j
<1>18. \A k \in Nat : k \in Back
  <2> HIDE DEF Back
  <2> QED BY <1>16, <1>17, NatSetInduction
<1>19. ASSUME NEW i \in 2..L
       PROVE  c[i].root \in B
  <2>1. L - i \in Nat /\ (L - i) + 2 <= L /\ L - (L - i) = i
    BY <1>1
  <2>2. L - i \in Back
    BY <1>18, <2>1
  <2>3. c[L - (L - i)].root \in B
    BY <2>1, <2>2
  <2>4. QED
    BY <2>1, <2>3
<1>20. ASSUME NEW i \in 1..L
       PROVE  c[i].root \in F \cap B
  <2>1. CASE i = 1
    BY <1>8, <1>15, <2>1 DEF root
  <2>2. CASE i # 1
    <3>1. i \in 2..L
      BY <2>2
    <3>2. QED
      BY <1>14, <1>19, <3>1
  <2>3. QED
    BY <2>1, <2>2
<1>21. QED
  BY <1>6, <1>20 DEF L, start, root, first

-----------------------------------------------------------------------------
(***************************************************************************)
(* The splitting of the static search.                                     *)
(***************************************************************************)
PathsOn(U) == Seq(U) \ {<<>>}

\* The search may go on from the first k vertices of q to the next one.
MayGoOn(g, bound, q, k) ==
  q[k + 1] \in Ends(g, Prefix(q, k)) /\ Extends(Prefix(q, k), q[k + 1], bound)

\* The search comes from path to q.
Leads(g, bound, path, q) ==
  /\ Len(path) <= Len(q) /\ Prefix(q, Len(path)) = path
  /\ \A k \in Len(path)..(Len(q) - 1) : MayGoOn(g, bound, q, k)

\* What expand counts, and the items it makes, from a path.
ClosedFrom(g, U, cutoff, bound, path) ==
  {q \in PathsOn(U) : /\ Leads(g, bound, path, q)
                      /\ \A k \in Len(path)..Len(q) : k # cutoff
                      /\ \E w \in Ends(g, q) : Closes(q, w)}

ItemsFrom(g, U, cutoff, bound, path) ==
  {q \in PathsOn(U) : /\ Leads(g, bound, path, q)
                      /\ Len(q) = cutoff
                      /\ PrefixHasWork(g, q, bound)}

LEMMA PathShape ==
  ASSUME NEW U, NEW q \in PathsOn(U)
  PROVE  /\ q \in Seq(U) /\ Len(q) \in Nat \ {0} /\ q = Prefix(q, Len(q))
         /\ \A i \in 1..Len(q) : q[i] \in U
<1>1. q \in Seq(U) /\ q # <<>>
  BY DEF PathsOn
<1>2. Len(q) \in Nat /\ Len(q) # 0
  BY <1>1, EmptySeq, LenProperties
<1>3. q = [i \in 1..Len(q) |-> q[i]] /\ \A i \in 1..Len(q) : q[i] \in U
  BY <1>1, LenProperties, ElementOfSeq
<1>4. QED
  BY <1>1, <1>2, <1>3 DEF Prefix

\* A longer path, by its last vertex and by its beginning.
LEMMA LongerPath ==
  ASSUME NEW U, NEW path \in PathsOn(U), NEW w \in U
  PROVE  /\ Append(path, w) \in PathsOn(U) /\ Len(Append(path, w)) = Len(path) + 1
         /\ Append(path, w)[Len(path) + 1] = w
         /\ \A i \in 1..Len(path) : Append(path, w)[i] = path[i]
<1>1. path \in Seq(U)
  BY PathShape
<1>2. QED
  BY <1>1, AppendProperties DEF PathsOn

LEMMA PrefixOfLonger ==
  ASSUME NEW U, NEW path \in PathsOn(U), NEW w \in U, NEW q \in PathsOn(U),
         Len(path) + 1 <= Len(q)
  PROVE  Prefix(q, Len(path) + 1) = Append(path, w)
           <=> Prefix(q, Len(path)) = path /\ q[Len(path) + 1] = w
<1> DEFINE n == Len(path)
           a == Append(path, w)
<1>1. n \in Nat \ {0} /\ path = Prefix(path, n)
  BY PathShape
<1>2. a \in PathsOn(U) /\ Len(a) = n + 1 /\ a[n + 1] = w /\ \A i \in 1..n : a[i] = path[i]
  BY LongerPath
<1> HIDE DEF n, a
<1>3. a = Prefix(a, n + 1)
  BY <1>2, PathShape
<1>4. \A i \in 1..(n + 1) : i \in 1..n \/ i = n + 1
  BY <1>1
<1>5. 1..n \subseteq 1..(n + 1) /\ n + 1 \in 1..(n + 1)
  BY <1>1
<1>6. Prefix(q, n + 1) = a <=> \A i \in 1..(n + 1) : q[i] = a[i]
  <2>1. Prefix(q, n + 1) = Prefix(a, n + 1) <=> \A i \in 1..(n + 1) : q[i] = a[i]
    BY DEF Prefix
  <2>2. QED
    BY <1>3, <2>1
<1>7. Prefix(q, n) = path <=> \A i \in 1..n : q[i] = path[i]
  <2>1. Prefix(q, n) = Prefix(path, n) <=> \A i \in 1..n : q[i] = path[i]
    BY DEF Prefix
  <2>2. QED
    BY <1>1, <2>1
<1>8. (\A i \in 1..(n + 1) : q[i] = a[i]) <=> (\A i \in 1..n : q[i] = path[i]) /\ q[n + 1] = w
  BY <1>2, <1>4, <1>5
<1>9. Prefix(q, n + 1) = a <=> Prefix(q, n) = path /\ q[n + 1] = w
  BY <1>6, <1>7, <1>8
<1>10. QED
  BY <1>9 DEF n, a

\* The search comes to q at once or by way of one of the longer paths.
LEMMA LeadsByOne ==
  ASSUME NEW U \in SUBSET Int, NEW g \in Adjacencies(U), NEW bound \in Nat,
         NEW path \in PathsOn(U), NEW q \in PathsOn(U)
  PROVE  Leads(g, bound, path, q)
           <=> \/ q = path
               \/ \E w \in Ends(g, path) :
                    Extends(path, w, bound) /\ Leads(g, bound, Append(path, w), q)
<1> DEFINE n == Len(path)
<1>1. n \in Nat \ {0} /\ path = Prefix(path, n) /\ path[n] \in U
  <2>1. n \in Nat \ {0} /\ path = Prefix(path, n) /\ \A i \in 1..n : path[i] \in U
    BY PathShape
  <2>2. QED
    BY <2>1
<1>2. Len(q) \in Nat \ {0} /\ q = Prefix(q, Len(q))
  BY PathShape
<1>3. Ends(g, path) \subseteq U
  BY <1>1, AdjacencyShape DEF Ends, Neighbours
<1> HIDE DEF n
<1>4. ASSUME Leads(g, bound, path, q), q # path
      PROVE  \E w \in Ends(g, path) :
               Extends(path, w, bound) /\ Leads(g, bound, Append(path, w), q)
  <2>1. /\ n <= Len(q) /\ Prefix(q, n) = path
        /\ \A k \in n..(Len(q) - 1) : MayGoOn(g, bound, q, k)
    BY <1>4 DEF Leads, n
  <2>2. n # Len(q)
    BY <1>2, <1>4, <2>1
  <2>3. n + 1 <= Len(q) /\ n \in n..(Len(q) - 1)
    BY <1>1, <1>2, <2>1, <2>2
  <2> DEFINE w == q[n + 1]
  <2>4. w \in Ends(g, path) /\ Extends(path, w, bound)
    BY <2>1, <2>3 DEF MayGoOn
  <2>5. w \in U
    BY <1>3, <2>4
  <2> HIDE DEF w
  <2>6. Len(Append(path, w)) = n + 1
    BY <2>5, LongerPath DEF n
  <2>7. Prefix(q, n + 1) = Append(path, w)
    <3>1. Prefix(q, n) = path /\ q[n + 1] = w
      BY <2>1 DEF w
    <3>2. QED
      BY <2>3, <2>5, <3>1, PrefixOfLonger DEF n
  <2>8. \A k \in (n + 1)..(Len(q) - 1) : k \in n..(Len(q) - 1)
    BY <1>1, <1>2
  <2>9. Leads(g, bound, Append(path, w), q)
    BY <2>1, <2>3, <2>6, <2>7, <2>8 DEF Leads
  <2>10. QED
    BY <2>4, <2>9
<1>5. Leads(g, bound, path, path)
  <2>1. n <= n /\ \A k \in n..(n - 1) : FALSE
    BY <1>1
  <2>2. QED
    BY <1>1, <2>1 DEF Leads, n
<1>6. ASSUME NEW w \in Ends(g, path), Extends(path, w, bound), Leads(g, bound, Append(path, w), q)
      PROVE  Leads(g, bound, path, q)
  <2>1. w \in U
    BY <1>3
  <2>2. Len(Append(path, w)) = n + 1
    BY <2>1, LongerPath DEF n
  <2>3. /\ n + 1 <= Len(q) /\ Prefix(q, n + 1) = Append(path, w)
        /\ \A k \in (n + 1)..(Len(q) - 1) : MayGoOn(g, bound, q, k)
    BY <1>6, <2>2 DEF Leads
  <2>4. Prefix(q, n) = path /\ q[n + 1] = w
    BY <2>1, <2>3, PrefixOfLonger DEF n
  <2>5. MayGoOn(g, bound, q, n)
    BY <1>6, <2>4 DEF MayGoOn
  <2>6. \A k \in n..(Len(q) - 1) : k = n \/ k \in (n + 1)..(Len(q) - 1)
    BY <1>1, <1>2
  <2>7. n <= Len(q)
    BY <1>1, <1>2, <2>3
  <2>8. QED
    BY <2>3, <2>4, <2>5, <2>6, <2>7 DEF Leads, n
<1>7. QED
  BY <1>4, <1>5, <1>6

Found(g, U, cutoff, bound, path) ==
  [closed |-> ClosedFrom(g, U, cutoff, bound, path),
   items |-> ItemsFrom(g, U, cutoff, bound, path)]

\* One call of expand, whose recursive calls return what f says.
Expanded(g, cutoff, bound, f, path) ==
  IF Len(path) = cutoff
  THEN [closed |-> {}, items |-> {p \in {path} : PrefixHasWork(g, p, bound)}]
  ELSE LET below == {f[Append(path, w)] :
                       w \in {w \in Ends(g, path) : Extends(path, w, bound)}}
       IN  [closed |-> {p \in {path} : \E w \in Ends(g, p) : Closes(p, w)}
                         \cup UNION {b.closed : b \in below},
            items |-> UNION {b.items : b \in below}]

\* What a call finds is what its recursive calls find, and itself.
LEMMA FoundExpands ==
  ASSUME NEW U \in SUBSET Int, NEW g \in Adjacencies(U), NEW bound \in Nat, NEW cutoff \in Nat,
         NEW path \in PathsOn(U), NEW f,
         \A w \in U : Extends(path, w, bound)
                        => f[Append(path, w)] = Found(g, U, cutoff, bound, Append(path, w))
  PROVE  Expanded(g, cutoff, bound, f, path) = Found(g, U, cutoff, bound, path)
<1> DEFINE W == {w \in Ends(g, path) : Extends(path, w, bound)}
           below == {f[Append(path, w)] : w \in W}
           here == {p \in {path} : \E w \in Ends(g, p) : Closes(p, w)}
           C(p) == ClosedFrom(g, U, cutoff, bound, p)
           I(p) == ItemsFrom(g, U, cutoff, bound, p)
<1>1. Len(path) \in Nat \ {0} /\ path[Len(path)] \in U
  <2>1. Len(path) \in Nat \ {0} /\ \A i \in 1..Len(path) : path[i] \in U
    BY PathShape
  <2>2. QED
    BY <2>1
<1>2. W \subseteq U
  BY <1>1, AdjacencyShape DEF Ends, Neighbours
<1>3. \A w \in W : f[Append(path, w)] = [closed |-> C(Append(path, w)), items |-> I(Append(path, w))]
  BY <1>2 DEF Found
<1>4. \A q \in PathsOn(U) :
        Leads(g, bound, path, q)
          <=> q = path \/ \E w \in W : Leads(g, bound, Append(path, w), q)
  BY LeadsByOne
<1>5. \A w \in W : Len(Append(path, w)) = Len(path) + 1
  BY <1>2, LongerPath
<1>6. \A q \in PathsOn(U) : Len(q) \in Nat
  BY PathShape
<1> HIDE DEF W
<1>7. /\ UNION {b.closed : b \in below} = UNION {C(Append(path, w)) : w \in W}
      /\ UNION {b.items : b \in below} = UNION {I(Append(path, w)) : w \in W}
  <2> HIDE DEF C, I
  <2>1. \A w \in W : /\ f[Append(path, w)].closed = C(Append(path, w))
                     /\ f[Append(path, w)].items = I(Append(path, w))
    <3>1. ASSUME NEW w \in W
          PROVE  /\ f[Append(path, w)].closed = C(Append(path, w))
                 /\ f[Append(path, w)].items = I(Append(path, w))
      <4> DEFINE a == Append(path, w)
      <4>1. f[a] = [closed |-> C(a), items |-> I(a)]
        BY <1>3
      <4> HIDE DEF a
      <4>2. f[a].closed = C(a) /\ f[a].items = I(a)
        BY <4>1
      <4>3. QED
        BY <4>2 DEF a
    <3>2. QED
      BY <3>1
  <2>2. QED
    BY <2>1
<1>8. CASE Len(path) = cutoff
  <2>1. C(path) = {}
    <3>1. ASSUME NEW q \in C(path)
          PROVE  FALSE
      <4>1. q \in PathsOn(U) /\ Len(path) <= Len(q) /\ \A k \in Len(path)..Len(q) : k # cutoff
        BY <3>1 DEF ClosedFrom, Leads
      <4>2. Len(path) \in Len(path)..Len(q)
        BY <1>1, <1>6, <4>1
      <4>3. QED
        BY <1>8, <4>1, <4>2
    <3>2. QED
      BY <3>1
  <2>2. I(path) = {p \in {path} : PrefixHasWork(g, p, bound)}
    <3>1. ASSUME NEW q \in PathsOn(U), Len(q) = cutoff
          PROVE  Leads(g, bound, path, q) <=> q = path
      <4>1. ASSUME NEW w \in W, Leads(g, bound, Append(path, w), q)
            PROVE  FALSE
        BY <1>1, <1>5, <1>8, <3>1, <4>1 DEF Leads
      <4>2. QED
        BY <1>4, <4>1
    <3>2. QED
      BY <1>8, <3>1 DEF ItemsFrom
  <2>3. Expanded(g, cutoff, bound, f, path)
          = [closed |-> {}, items |-> {p \in {path} : PrefixHasWork(g, p, bound)}]
    BY <1>8 DEF Expanded
  <2>4. QED
    BY <2>1, <2>2, <2>3 DEF Found
<1>9. CASE Len(path) # cutoff
  <2>1. \A q \in PathsOn(U) : q \in C(path) <=> q \in here \/ \E w \in W : q \in C(Append(path, w))
    <3>1. SUFFICES ASSUME NEW q \in PathsOn(U)
                   PROVE  q \in C(path) <=> q \in here \/ \E w \in W : q \in C(Append(path, w))
      OBVIOUS
    <3> DEFINE n == Len(path)
               m == Len(q)
               ends == \E w \in Ends(g, q) : Closes(q, w)
    <3>2. n \in Nat \ {0} /\ m \in Nat /\ n # cutoff
      BY <1>1, <1>6, <1>9
    <3>3. q \in C(path) <=> Leads(g, bound, path, q) /\ (\A k \in n..m : k # cutoff) /\ ends
      BY DEF ClosedFrom
    <3>4. \A w \in W : q \in C(Append(path, w))
            <=> Leads(g, bound, Append(path, w), q) /\ (\A k \in (n + 1)..m : k # cutoff) /\ ends
      BY <1>5 DEF ClosedFrom
    <3>5. q \in here <=> q = path /\ ends
      OBVIOUS
    <3>6. (\A k \in n..m : k # cutoff) <=> (\A k \in (n + 1)..m : k # cutoff)
      <4> HIDE DEF n, m
      <4>1. \A k \in n..m : k = n \/ k \in (n + 1)..m
        BY <3>2
      <4>2. \A k \in (n + 1)..m : k \in n..m
        BY <3>2
      <4>3. QED
        BY <3>2, <4>1, <4>2
    <3>7. q = path => \A k \in (n + 1)..m : FALSE
      BY <3>2
    <3> HIDE DEF C, here, ends, n, m
    <3>8. QED
      BY <1>4, <3>3, <3>4, <3>5, <3>6, <3>7
  <2>2. \A q \in PathsOn(U) : q \in I(path) <=> \E w \in W : q \in I(Append(path, w))
    <3>1. SUFFICES ASSUME NEW q \in PathsOn(U)
                   PROVE  q \in I(path) <=> \E w \in W : q \in I(Append(path, w))
      OBVIOUS
    <3> DEFINE fits == Len(q) = cutoff /\ PrefixHasWork(g, q, bound)
    <3>2. q \in I(path) <=> Leads(g, bound, path, q) /\ fits
      BY DEF ItemsFrom
    <3>3. \A w \in W : q \in I(Append(path, w)) <=> Leads(g, bound, Append(path, w), q) /\ fits
      BY DEF ItemsFrom
    <3>4. fits => q # path
      BY <1>9
    <3> HIDE DEF I, fits
    <3>5. QED
      BY <1>4, <3>2, <3>3, <3>4
  <2>3. /\ C(path) \subseteq PathsOn(U) /\ I(path) \subseteq PathsOn(U) /\ here \subseteq PathsOn(U)
        /\ \A w \in W : C(Append(path, w)) \subseteq PathsOn(U) /\ I(Append(path, w)) \subseteq PathsOn(U)
    BY DEF ClosedFrom, ItemsFrom
  <2>4. Expanded(g, cutoff, bound, f, path)
          = [closed |-> here \cup UNION {b.closed : b \in below},
             items |-> UNION {b.items : b \in below}]
    BY <1>9 DEF Expanded, W
  <2> HIDE DEF C, I, here, below
  <2>5. C(path) = here \cup UNION {C(Append(path, w)) : w \in W}
    BY <2>1, <2>3
  <2>6. I(path) = UNION {I(Append(path, w)) : w \in W}
    BY <2>2, <2>3
  <2>7. QED
    BY <1>7, <2>4, <2>5, <2>6 DEF Found, C, I
<1>10. QED
  BY <1>8, <1>9

\* The recursion of expand ends, for paths grow up to the bound, and what it returns
\* is what the search finds.
LEMMA ExpandFinds ==
  ASSUME NEW U \in SUBSET Int, NEW g \in Adjacencies(U), NEW bound \in Nat, NEW cutoff \in Nat,
         NEW path \in PathsOn(U)
  PROVE  Expand(g, cutoff, bound, path) = Found(g, U, cutoff, bound, path)
<1> DEFINE P == PathsOn(U)
           Step(f) == [p \in P |-> Expanded(g, cutoff, bound, f, p)]
           expand == CHOOSE f : f = Step(f)
           F == [p \in P |-> Found(g, U, cutoff, bound, p)]
<1>1. Expand(g, cutoff, bound, path) = expand[path]
  <2>1. DOMAIN g = U
    BY AdjacencyShape
  <2>2. QED
    BY <2>1 DEF Expand, Expanded, PathsOn
<1>2. \A p \in P, w \in U : Append(p, w) \in P /\ Len(Append(p, w)) = Len(p) + 1
  BY LongerPath
<1>3. F = Step(F)
  <2>1. ASSUME NEW p \in P
        PROVE  Expanded(g, cutoff, bound, F, p) = Found(g, U, cutoff, bound, p)
    <3>1. \A w \in U : F[Append(p, w)] = Found(g, U, cutoff, bound, Append(p, w))
      BY <1>2
    <3> HIDE DEF F
    <3>2. QED
      BY <3>1, FoundExpands
  <2>2. QED
    BY <2>1
<1> HIDE DEF F
<1>4. expand = Step(expand)
  <2> HIDE DEF Step
  <2> QED BY <1>3
<1> HIDE DEF expand
<1>5. \A p \in P : expand[p] = Expanded(g, cutoff, bound, expand, p)
  <2> HIDE DEF P
  <2> QED BY <1>4
<1> HIDE DEF Step
<1>6. \A p \in P : Len(p) \in Nat
  BY PathShape
<1> DEFINE Good == {m \in Nat : \A p \in P : Len(p) + m >= bound
                                   => expand[p] = Found(g, U, cutoff, bound, p)}
<1>7. 0 \in Good
  <2>1. ASSUME NEW p \in P, Len(p) + 0 >= bound
        PROVE  expand[p] = Found(g, U, cutoff, bound, p)
    <3>1. \A w \in U : ~Extends(p, w, bound)
      BY <1>6, <2>1 DEF Extends
    <3>2. QED
      BY <1>5, <3>1, FoundExpands
  <2>2. QED
    BY <2>1
<1>8. ASSUME NEW m \in Nat, m \in Good
      PROVE  m + 1 \in Good
  <2>1. ASSUME NEW p \in P, Len(p) + (m + 1) >= bound
        PROVE  expand[p] = Found(g, U, cutoff, bound, p)
    <3>1. ASSUME NEW w \in U
          PROVE  expand[Append(p, w)] = Found(g, U, cutoff, bound, Append(p, w))
      <4>1. Append(p, w) \in P /\ Len(Append(p, w)) + m >= bound
        BY <1>2, <1>6, <2>1
      <4>2. QED
        BY <1>8, <4>1
    <3>2. QED
      BY <1>5, <3>1, FoundExpands
  <2>2. QED
    BY <2>1
<1>9. \A m \in Nat : m \in Good
  <2> HIDE DEF Good
  <2> QED BY <1>7, <1>8, NatSetInduction
<1>10. bound \in Good /\ Len(path) + bound >= bound
  BY <1>6, <1>9
<1>11. QED
  BY <1>1, <1>10

LEMMA PrefixShape ==
  ASSUME NEW U, NEW q \in PathsOn(U), NEW k \in 1..Len(q)
  PROVE  /\ Prefix(q, k) \in PathsOn(U) /\ Len(Prefix(q, k)) = k
         /\ \A i \in 1..k : Prefix(q, k)[i] = q[i]
<1> DEFINE p == Prefix(q, k)
<1>1. k \in Nat \ {0} /\ \A i \in 1..k : q[i] \in U
  <2>1. Len(q) \in Nat \ {0} /\ \A i \in 1..Len(q) : q[i] \in U
    BY PathShape
  <2>2. QED
    BY <2>1
<1>2. p \in [1..k -> U] /\ \A i \in 1..k : p[i] = q[i]
  BY <1>1 DEF Prefix
<1> HIDE DEF p
<1>3. Len(p) = k
  BY <1>1, <1>2, LenOfFunction
<1>4. p \in Seq(U) /\ p # <<>>
  BY <1>1, <1>2, <1>3, SeqDef
<1>5. QED
  BY <1>2, <1>3, <1>4 DEF p, PathsOn

LEMMA PrefixTwice ==
  ASSUME NEW q, NEW m \in Nat, NEW k \in 0..m
  PROVE  Prefix(Prefix(q, m), k) = Prefix(q, k)
<1>1. \A i \in 1..k : i \in 1..m
  OBVIOUS
<1>2. QED
  BY <1>1 DEF Prefix

\* What the search of a root comes to is a simple path.
LEMMA LedIsSimple ==
  ASSUME NEW U \in SUBSET Int, NEW g \in Adjacencies(U), NEW bound \in Nat,
         NEW root \in U, NEW q \in PathsOn(U), Leads(g, bound, <<root>>, q)
  PROVE  /\ q[1] = root
         /\ \A i \in 2..Len(q) : /\ q[i] \in Neighbours(g, q[i - 1])
                                 /\ q[1] < q[i]
                                 /\ \A j \in 1..(i - 1) : q[j] # q[i]
         /\ Len(q) >= 2 => Len(q) <= bound
<1>1. /\ 1 <= Len(q) /\ Prefix(q, 1) = <<root>>
      /\ \A k \in 1..(Len(q) - 1) : MayGoOn(g, bound, q, k)
  <2>1. Len(<<root>>) = 1
    OBVIOUS
  <2>2. QED
    BY <2>1 DEF Leads
<1>2. Len(q) \in Nat \ {0} /\ \A i \in 1..Len(q) : q[i] \in U
  BY PathShape
<1>3. q[1] = root
  <2>1. Prefix(q, 1)[1] = q[1]
    BY DEF Prefix
  <2>2. QED
    BY <1>1, <2>1
<1>4. ASSUME NEW k \in 1..(Len(q) - 1)
      PROVE  /\ q[k + 1] \in Neighbours(g, q[k]) /\ q[1] < q[k + 1]
             /\ \A j \in 1..k : q[j] # q[k + 1]
             /\ k < bound
  <2>1. k \in 1..Len(q) /\ k \in 1..k /\ 1 \in 1..k /\ k + 1 \in 1..Len(q) /\ 1 \in 1..Len(q)
    BY <1>2
  <2> DEFINE p == Prefix(q, k)
  <2>2. Len(p) = k /\ \A i \in 1..k : p[i] = q[i]
    BY <2>1, PrefixShape
  <2>3. q[k + 1] \in Ends(g, p) /\ Extends(p, q[k + 1], bound)
    BY <1>1 DEF MayGoOn
  <2> HIDE DEF p
  <2>4. q[k + 1] \in Neighbours(g, q[k])
    BY <2>1, <2>2, <2>3 DEF Ends
  <2>5. q[k + 1] > q[1] /\ (\A i \in 1..k : q[i] # q[k + 1]) /\ k < bound
    BY <2>1, <2>2, <2>3 DEF Extends
  <2>6. q[1] \in Int /\ q[k + 1] \in Int
    BY <1>2, <2>1
  <2>7. QED
    BY <2>4, <2>5, <2>6
<1>5. ASSUME NEW i \in 2..Len(q)
      PROVE  /\ q[i] \in Neighbours(g, q[i - 1]) /\ q[1] < q[i]
             /\ \A j \in 1..(i - 1) : q[j] # q[i]
  <2>1. i - 1 \in 1..(Len(q) - 1) /\ (i - 1) + 1 = i
    BY <1>2
  <2>2. QED
    BY <1>4, <2>1
<1>6. ASSUME Len(q) >= 2
      PROVE  Len(q) <= bound
  <2>1. Len(q) - 1 \in 1..(Len(q) - 1)
    BY <1>2, <1>6
  <2>2. QED
    BY <1>2, <1>4, <2>1
<1>7. QED
  BY <1>3, <1>5, <1>6

\* The search of its least vertex comes to every path that a cycle begins with.
LEMMA CycleIsLed ==
  ASSUME NEW U \in SUBSET Int, NEW g \in Adjacencies(U), NEW bound \in Nat,
         NEW c \in Cycles(g, bound)
  PROVE  /\ c \in PathsOn(U) /\ c[1] \in U
         /\ \A m \in 1..Len(c) :
              /\ Leads(g, bound, <<c[1]>>, Prefix(c, m))
              /\ m = Len(c) => \E w \in Ends(g, Prefix(c, m)) : Closes(Prefix(c, m), w)
              /\ m < Len(c) => \E w \in Ends(g, Prefix(c, m)) : Extends(Prefix(c, m), w, bound)
<1> DEFINE L == Len(c)
<1>1. /\ L \in 2..bound /\ c \in [1..L -> U]
      /\ \A i \in 1..L : c[i] \in U
      /\ \A i, j \in 1..L : i # j => c[i] # c[j]
      /\ \A i \in 2..L : c[1] < c[i]
  BY CycleShape
<1>2. \A k \in 1..L : Successor(c, k) \in Neighbours(g, c[k])
  BY DEF Cycles, IsSimpleCycle
<1>3. c[L] \in Int /\ c[1] \in Neighbours(g, c[L]) /\ L \in Nat \ {0, 1} /\ L <= bound
  <2>1. L \in Nat \ {0, 1} /\ L <= bound /\ L \in 1..L
    BY <1>1
  <2>2. Successor(c, L) = c[1]
    BY DEF Successor
  <2>3. QED
    BY <1>1, <1>2, <2>1, <2>2
<1>4. \A k \in 1..(L - 1) : c[k + 1] \in Neighbours(g, c[k])
  <2>1. ASSUME NEW k \in 1..(L - 1)
        PROVE  c[k + 1] \in Neighbours(g, c[k])
    <3>1. k \in 1..L /\ k # L
      BY <1>3
    <3>2. QED
      BY <1>2, <3>1 DEF Successor
  <2>2. QED
    BY <2>1
<1>5. c \in PathsOn(U) /\ c[1] \in U
  <2>1. c \in Seq(U)
    BY <1>1, <1>3, SeqDef
  <2>2. c # <<>>
    BY <1>3, EmptySeq
  <2>3. 1 \in 1..L
    BY <1>3
  <2>4. QED
    BY <1>1, <2>1, <2>2, <2>3 DEF PathsOn
<1>6. ASSUME NEW k \in 1..L
      PROVE  /\ Len(Prefix(c, k)) = k /\ \A i \in 1..k : Prefix(c, k)[i] = c[i]
             /\ Ends(g, Prefix(c, k)) = Neighbours(g, c[k])
             /\ k < L => Extends(Prefix(c, k), c[k + 1], bound)
  <2> DEFINE p == Prefix(c, k)
  <2>1. Len(p) = k /\ \A i \in 1..k : p[i] = c[i]
    BY <1>5, PrefixShape
  <2> HIDE DEF p
  <2>2. k \in 1..k /\ 1 \in 1..k
    BY <1>3
  <2>3. Ends(g, p) = Neighbours(g, c[k])
    BY <2>1, <2>2 DEF Ends
  <2>4. ASSUME k < L
        PROVE  Extends(p, c[k + 1], bound)
    <3>1. k + 1 \in 2..L /\ k + 1 \in 1..L /\ k < bound /\ 1 \in 1..L
      BY <1>3, <2>4
    <3>2. \A i \in 1..k : i \in 1..L /\ i # k + 1
      BY <1>3
    <3>3. c[k + 1] > c[1]
      <4>1. c[1] < c[k + 1] /\ c[1] \in Int /\ c[k + 1] \in Int
        BY <1>1, <3>1
      <4>2. QED
        BY <4>1
    <3>4. \A i \in 1..k : p[i] # c[k + 1]
      BY <1>1, <2>1, <3>1, <3>2
    <3>5. QED
      BY <2>1, <2>2, <3>1, <3>3, <3>4 DEF Extends
  <2>5. QED
    BY <2>1, <2>3, <2>4 DEF p
<1>7. ASSUME NEW m \in 1..L
      PROVE  /\ Leads(g, bound, <<c[1]>>, Prefix(c, m))
             /\ m = L => \E w \in Ends(g, Prefix(c, m)) : Closes(Prefix(c, m), w)
             /\ m < L => \E w \in Ends(g, Prefix(c, m)) : Extends(Prefix(c, m), w, bound)
  <2> DEFINE q == Prefix(c, m)
  <2>1. Len(q) = m /\ \A i \in 1..m : q[i] = c[i]
    BY <1>6
  <2>2. m \in Nat \ {0} /\ 1 \in 1..m
    BY <1>3
  <2>3. \A k \in 0..m : Prefix(q, k) = Prefix(c, k)
    BY <2>2, PrefixTwice
  <2>4. Ends(g, q) = Neighbours(g, c[m]) /\ (m < L => Extends(q, c[m + 1], bound))
    BY <1>6
  <2> HIDE DEF q
  <2>5. Prefix(q, 1) = <<c[1]>>
    <3>1. Prefix(q, 1) = Prefix(c, 1)
      BY <2>2, <2>3
    <3>2. Prefix(c, 1) = <<c[1]>>
      BY DEF Prefix
    <3>3. QED
      BY <3>1, <3>2
  <2>6. ASSUME NEW k \in 1..(m - 1)
        PROVE  MayGoOn(g, bound, q, k)
    <3>1. k \in 0..m /\ k \in 1..(L - 1) /\ k \in 1..L /\ k < L /\ k + 1 \in 1..m
      BY <1>3, <2>2
    <3>2. Prefix(q, k) = Prefix(c, k) /\ q[k + 1] = c[k + 1]
      BY <2>1, <2>3, <3>1
    <3>3. Ends(g, Prefix(c, k)) = Neighbours(g, c[k]) /\ Extends(Prefix(c, k), c[k + 1], bound)
      BY <1>6, <3>1
    <3>4. c[k + 1] \in Neighbours(g, c[k])
      BY <1>4, <3>1
    <3>5. QED
      BY <3>2, <3>3, <3>4 DEF MayGoOn
  <2>7. Leads(g, bound, <<c[1]>>, q)
    <3>1. Len(<<c[1]>>) = 1
      OBVIOUS
    <3>2. QED
      BY <2>1, <2>2, <2>5, <2>6, <3>1 DEF Leads
  <2>8. ASSUME m = L
        PROVE  \E w \in Ends(g, q) : Closes(q, w)
    <3>1. c[1] = q[1] /\ Len(q) >= 2 /\ c[1] \in Ends(g, q)
      BY <1>3, <2>1, <2>2, <2>4, <2>8
    <3>2. QED
      BY <3>1 DEF Closes
  <2>9. ASSUME m < L
        PROVE  \E w \in Ends(g, q) : Extends(q, w, bound)
    <3>1. m \in 1..(L - 1)
      BY <1>3, <2>9
    <3>2. QED
      BY <1>4, <2>4, <2>9, <3>1
  <2>10. QED
    BY <2>7, <2>8, <2>9 DEF q
<1>8. QED
  BY <1>5, <1>7

\* A cycle is counted on the host exactly when it is shorter than the cutoff; and
\* otherwise there is one item whose path it begins with.
LEMMA SplitCounts ==
  ASSUME NEW U \in SUBSET Int, NEW g \in Adjacencies(U), NEW bound \in Nat,
         NEW cutoff \in Nat, cutoff >= 2
  PROVE  /\ SplitClosed(g, cutoff, bound) = {c \in Cycles(g, bound) : Len(c) < cutoff}
         /\ \A c \in Cycles(g, bound) :
              Len(c) >= cutoff => Prefix(c, cutoff) \in SplitItems(g, cutoff, bound)
         /\ \A q \in SplitItems(g, cutoff, bound) : q \in PathsOn(U) /\ Len(q) = cutoff
<1> DEFINE closed == SplitClosed(g, cutoff, bound)
           items == SplitItems(g, cutoff, bound)
           C(r) == ClosedFrom(g, U, cutoff, bound, <<r>>)
           I(r) == ItemsFrom(g, U, cutoff, bound, <<r>>)
<1>1. DOMAIN g = U
  BY AdjacencyShape
<1>2. \A r \in U : <<r>> \in PathsOn(U) /\ Len(<<r>>) = 1
  BY DEF PathsOn
<1>3. \A r \in U : /\ Expand(g, cutoff, bound, <<r>>).closed = C(r)
                   /\ Expand(g, cutoff, bound, <<r>>).items = I(r)
  <2>1. SUFFICES ASSUME NEW r \in U
                 PROVE  /\ Expand(g, cutoff, bound, <<r>>).closed = C(r)
                        /\ Expand(g, cutoff, bound, <<r>>).items = I(r)
    OBVIOUS
  <2>2. Expand(g, cutoff, bound, <<r>>) = Found(g, U, cutoff, bound, <<r>>)
    BY <1>2, ExpandFinds
  <2>3. Found(g, U, cutoff, bound, <<r>>) = [closed |-> C(r), items |-> I(r)]
    BY DEF Found
  <2> HIDE DEF C, I
  <2>4. QED
    BY <2>2, <2>3
<1>4. closed = UNION {C(r) : r \in U} /\ items = UNION {I(r) : r \in U}
  <2> HIDE DEF C, I
  <2> QED BY <1>1, <1>3 DEF SplitClosed, SplitItems
<1> HIDE DEF closed, items
<1>5. ASSUME NEW c \in Cycles(g, bound), Len(c) < cutoff
      PROVE  c \in closed
  <2>1. c \in PathsOn(U) /\ c[1] \in U
    BY CycleIsLed
  <2>2. Len(c) \in Nat \ {0} /\ c = Prefix(c, Len(c)) /\ Len(c) \in 1..Len(c)
    BY <2>1, PathShape
  <2>3. /\ Leads(g, bound, <<c[1]>>, Prefix(c, Len(c)))
        /\ \E w \in Ends(g, Prefix(c, Len(c))) : Closes(Prefix(c, Len(c)), w)
    BY <2>2, CycleIsLed
  <2>4. Leads(g, bound, <<c[1]>>, c) /\ \E w \in Ends(g, c) : Closes(c, w)
    BY <2>2, <2>3
  <2>5. \A k \in Len(<<c[1]>>)..Len(c) : k # cutoff
    BY <1>2, <1>5, <2>1, <2>2
  <2>6. c \in C(c[1])
    BY <2>1, <2>4, <2>5 DEF ClosedFrom
  <2>7. QED
    BY <1>4, <2>1, <2>6
<1>6. ASSUME NEW c \in Cycles(g, bound), Len(c) >= cutoff
      PROVE  Prefix(c, cutoff) \in items
  <2>1. c \in PathsOn(U) /\ c[1] \in U
    BY CycleIsLed
  <2>2. Len(c) \in Nat \ {0} /\ cutoff \in 1..Len(c)
    <3>1. Len(c) \in Nat \ {0}
      BY <2>1, PathShape
    <3>2. QED
      BY <1>6, <3>1
  <2> DEFINE q == Prefix(c, cutoff)
  <2>3. q \in PathsOn(U) /\ Len(q) = cutoff
    BY <2>1, <2>2, PrefixShape
  <2>4. /\ Leads(g, bound, <<c[1]>>, q)
        /\ cutoff = Len(c) => \E w \in Ends(g, q) : Closes(q, w)
        /\ cutoff < Len(c) => \E w \in Ends(g, q) : Extends(q, w, bound)
    BY <2>2, CycleIsLed
  <2> HIDE DEF q
  <2>5. PrefixHasWork(g, q, bound)
    <3>1. cutoff = Len(c) \/ cutoff < Len(c)
      BY <1>6, <2>2
    <3>2. QED
      BY <2>4, <3>1 DEF PrefixHasWork
  <2>6. q \in I(c[1])
    BY <2>3, <2>4, <2>5 DEF ItemsFrom
  <2>7. QED
    BY <1>4, <2>1, <2>6 DEF q
<1>7. ASSUME NEW q \in closed
      PROVE  q \in Cycles(g, bound) /\ Len(q) < cutoff
  <2>1. PICK r \in U : q \in C(r)
    BY <1>4
  <2>2. /\ q \in PathsOn(U) /\ Leads(g, bound, <<r>>, q)
        /\ \A k \in 1..Len(q) : k # cutoff
    BY <1>2, <2>1 DEF ClosedFrom
  <2>3. PICK w \in Ends(g, q) : Closes(q, w)
    BY <2>1 DEF ClosedFrom
  <2>4. /\ q \in Seq(U) /\ Len(q) \in Nat \ {0} /\ \A i \in 1..Len(q) : q[i] \in U
        /\ q \in [1..Len(q) -> U]
    <3>1. q \in Seq(U) /\ Len(q) \in Nat \ {0} /\ \A i \in 1..Len(q) : q[i] \in U
      BY <2>2, PathShape
    <3>2. QED
      BY <3>1, LenProperties
  <2>5. w = q[1] /\ Len(q) >= 2 /\ q[1] \in Neighbours(g, q[Len(q)])
    BY <2>3 DEF Closes, Ends
  <2>6. /\ \A i \in 2..Len(q) : /\ q[i] \in Neighbours(g, q[i - 1])
                                /\ q[1] < q[i]
                                /\ \A j \in 1..(i - 1) : q[j] # q[i]
        /\ Len(q) <= bound
    BY <2>2, <2>5, LedIsSimple
  <2>7. Len(q) < cutoff
    <3>1. ~(cutoff \in 1..Len(q))
      BY <2>2
    <3>2. QED
      BY <2>4, <3>1
  <2>8. IsSimpleCycle(g, q)
    <3>1. ASSUME NEW i \in 1..Len(q), NEW j \in 1..Len(q), i # j
          PROVE  q[i] # q[j]
      <4>1. CASE i < j
        <5>1. j \in 2..Len(q) /\ i \in 1..(j - 1)
          BY <2>4, <4>1
        <5>2. QED
          BY <2>6, <5>1
      <4>2. CASE j < i
        <5>1. i \in 2..Len(q) /\ j \in 1..(i - 1)
          BY <2>4, <4>2
        <5>2. QED
          BY <2>6, <5>1
      <4>3. QED
        BY <2>4, <3>1, <4>1, <4>2
    <3>2. ASSUME NEW k \in 1..Len(q)
          PROVE  Successor(q, k) \in Neighbours(g, q[k])
      <4>1. CASE k = Len(q)
        BY <2>5, <4>1 DEF Successor
      <4>2. CASE k # Len(q)
        <5>0. Len(q) \in Nat \ {0}
          BY <2>4
        <5>1. k + 1 \in 2..Len(q) /\ (k + 1) - 1 = k
          BY <4>2, <5>0
        <5>2. QED
          BY <2>6, <4>2, <5>1 DEF Successor
      <4>3. QED
        BY <4>1, <4>2
    <3>3. QED
      BY <2>6, <3>1, <3>2 DEF IsSimpleCycle
  <2>9. Len(q) \in 2..bound
    BY <2>4, <2>5, <2>6
  <2>10. q \in Cycles(g, bound)
    BY <1>1, <2>4, <2>8, <2>9 DEF Cycles
  <2>11. QED
    BY <2>7, <2>10
<1>8. \A q \in items : q \in PathsOn(U) /\ Len(q) = cutoff
  BY <1>4 DEF ItemsFrom
<1>9. closed = {c \in Cycles(g, bound) : Len(c) < cutoff}
  BY <1>5, <1>7
<1>10. QED
  BY <1>6, <1>8, <1>9 DEF closed, items

\* So the host has the shorter cycles, the items the others, and none has two items.
LEMMA SplitIsPartition ==
  ASSUME NEW U \in SUBSET Int, NEW g \in Adjacencies(U), NEW bound \in Nat,
         NEW cutoff \in Nat, cutoff >= 2,
         NEW closed, closed = SplitClosed(g, cutoff, bound),
         NEW items, items = SplitItems(g, cutoff, bound)
  PROVE  /\ closed = {c \in Cycles(g, bound) : Len(c) < cutoff}
         /\ UNION {Continuation(g, item, bound) : item \in items} =
              {c \in Cycles(g, bound) : Len(c) >= cutoff}
         /\ \A item \in items : \A other \in items \ {item} :
              Continuation(g, item, bound) \cap Continuation(g, other, bound) = {}
<1>1. /\ closed = {c \in Cycles(g, bound) : Len(c) < cutoff}
      /\ \A c \in Cycles(g, bound) : Len(c) >= cutoff => Prefix(c, cutoff) \in items
      /\ \A q \in items : q \in PathsOn(U) /\ Len(q) = cutoff
  BY SplitCounts
<1>3. ASSUME NEW c \in Cycles(g, bound), NEW item \in items
      PROVE  c \in Continuation(g, item, bound)
               <=> Len(c) >= cutoff /\ Prefix(c, cutoff) = item
  <2>1. SubSeq(c, 1, cutoff) = Prefix(c, cutoff)
    <3>1. 1..(1 + cutoff - 1) = 1..cutoff /\ \A i \in 1..cutoff : i + 1 - 1 = i
      OBVIOUS
    <3>2. QED
      BY <3>1 DEF SubSeq, Prefix
  <2>2. QED
    BY <1>1, <2>1 DEF Continuation
<1>4. \A item \in items : Continuation(g, item, bound) \subseteq Cycles(g, bound)
  BY DEF Continuation
<1>5. ASSUME NEW c \in Cycles(g, bound)
      PROVE  Len(c) >= cutoff <=> \E item \in items : c \in Continuation(g, item, bound)
  <2>1. Len(c) >= cutoff => Prefix(c, cutoff) \in items
    BY <1>1
  <2>2. QED
    BY <1>3, <2>1
<1>6. UNION {Continuation(g, item, bound) : item \in items} =
        {c \in Cycles(g, bound) : Len(c) >= cutoff}
  BY <1>4, <1>5
<1>7. ASSUME NEW item \in items, NEW c \in Continuation(g, item, bound)
      PROVE  \A other \in items \ {item} : c \notin Continuation(g, other, bound)
  <2>1. c \in Cycles(g, bound)
    BY <1>4, <1>7
  <2>2. Prefix(c, cutoff) = item
    BY <1>3, <1>7, <2>1
  <2>3. QED
    BY <1>3, <2>1, <2>2
<1>8. QED
  BY <1>1, <1>6, <1>7

-----------------------------------------------------------------------------
(***************************************************************************)
(* The request is one of the requests.                                     *)
(***************************************************************************)
RequestInv == request \in Requests

LEMMA RequestStays == Spec => []RequestInv
<1>1. Init => RequestInv
  BY SMTT(30) DEF Init, RequestInv
<1>2. RequestInv /\ [Next]_vars => RequestInv'
  <2>1. SUFFICES ASSUME RequestInv, [Next]_vars
                 PROVE  request' = request
    BY ZenonT(40) DEF RequestInv
  <2>2. QED
    BY <2>1, ZenonT(40) DEF Next, vars, device, Host, CountSimpleCycles, CountTimeWindowCycles,
             CountTemporalCycles, HostSteps, Refuse, ReturnEmpty, Launch, Collect, Return,
             Thread, Clear, Flush, CountRoots, CountTimeWindowStartEvents,
             CountTemporalStartEvents, Search, BeginIdle, Begin, CountCycle, Skip, Push,
             Activate, Pop, Sync, Barrier, Returned, Frame
<1>3. QED
  BY <1>1, <1>2, PTL DEF Spec

LEMMA RequestView ==
  ASSUME RequestInv
  PROVE  /\ IsView(request.view) /\ Mode \in Modes /\ request.width \in Int
         /\ Bound \in 0..MaxLength /\ BlockSize \in Nat \ {0}
BY KernelAssumption DEF RequestInv, IsView, Mode, Bound

\* In every entry of the packed graph the binary searches of the device
\* (cuda_timestamp.hpp) find the timestamps that the definitions of a window and of
\* the events after an arrival name: for every view, start and width.
THEOREM DeviceSearchAgreesAlways == Spec => []DeviceSearchAgrees
<1>1. RequestInv => DeviceSearchAgrees
  <2>1. SUFFICES ASSUME RequestInv
                 PROVE  DeviceSearchAgrees
    OBVIOUS
  <2> DEFINE g == request.view
             p == Pack(g)
             EdgeAt(v, e) == p.offsets[v] + e - 1
  <2>2. IsView(g)
    BY <2>1, RequestView
  <2>3. PackedFrom(p, g)
    BY <2>2, PackFacts
  <2>4. \A x \in 0..TimeMax : x \in Int
    OBVIOUS
  <2>5. \A x \in -1..TimeMax : x \in Int
    OBVIOUS
  <2> HIDE DEF g, p
  <2>6. ASSUME NEW v \in V, NEW e \in 1..Len(g[v]), NEW start \in 0..TimeMax
        PROVE  EntryAgrees(p, g[v][e], v, EdgeAt(v, e), start)
    BY <2>2, <2>3, EntrySearches, ZenonT(40)
  <2> HIDE DEF EdgeAt
  <2>7. \A v \in V : \A e \in 1..Len(g[v]) : \A start \in 0..TimeMax :
          /\ \A end \in 0..TimeMax :
               Positions(DeviceAfter(p.timestamps, p.begins[EdgeAt(v, e)],
                                     p.ends[EdgeAt(v, e)], start, end)) =
                 {i + p.begins[EdgeAt(v, e)] - 1 : i \in TimestampsAfter(g[v][e], start, end)}
          /\ \A width \in -1..TimeMax, root \in V :
               DeviceHasTimestamp(p.timestamps, p.begins[EdgeAt(v, e)],
                                  p.ends[EdgeAt(v, e)], start, width, root > v) =
                 /\ width >= 0 /\ start + width <= TimeMax
                 /\ HasTimestamp(g[v][e], v, root, start, width)
    BY <2>4, <2>5, <2>6, ZenonT(40) DEF EntryAgrees
  <2>8. QED
    BY <2>7, Zenon DEF DeviceSearchAgrees, g, p, EdgeAt
<1>2. QED
  BY <1>1, RequestStays, PTL

\* Every temporal cycle is in the union of its start (cycle_union.cpp), whatever the
\* graph and the width: the start events that the host leaves out start none.
THEOREM UnionKeepsCyclesAlways == Spec => []UnionKeepsCycles
<1>1. RequestInv => UnionKeepsCycles
  <2>1. SUFFICES ASSUME RequestInv, NEW width \in 0..TimeMax,
                        NEW c \in TemporalCycles(request.view, width, N)
                 PROVE  {c[i].root : i \in 1..Len(c)} \subseteq
                          Union(request.view, c[1].root, Target(request.view, c[1]),
                                StartTime(request.view, c[1]), width)
    BY DEF UnionKeepsCycles
  <2>2. IsView(request.view) /\ width \in Int /\ N \in Nat
    BY <2>1, RequestView, KernelAssumption
  <2>3. QED
    BY <2>2, UnionHoldsCycle
<1>2. QED
  BY <1>1, RequestStays, PTL

LEMMA AdjacencyOfView ==
  ASSUME NEW g, IsView(g)
  PROVE  Adjacency(g) \in Adjacencies(V)
<1> DEFINE a == Adjacency(g)
<1>1. a = [v \in V |-> [e \in 1..Len(g[v]) |-> g[v][e].vertex]]
  BY ViewShape DEF Adjacency
<1>2. ASSUME NEW v \in V
      PROVE  /\ a[v] \in Seq(V) /\ Len(a[v]) = Len(g[v])
             /\ \A i \in 1..Len(g[v]) : a[v][i] = g[v][i].vertex
  <2>1. a[v] = [e \in 1..Len(g[v]) |-> g[v][e].vertex]
    BY <1>1
  <2>2. Len(g[v]) \in Nat /\ \A e \in 1..Len(g[v]) : g[v][e].vertex \in V
    BY ViewShape
  <2> HIDE DEF a
  <2>3. a[v] \in [1..Len(g[v]) -> V]
    BY <2>1, <2>2
  <2>4. Len(a[v]) = Len(g[v])
    BY <2>2, <2>3, LenOfFunction
  <2>5. QED
    BY <2>1, <2>2, <2>3, <2>4, SeqDef
<1>3. \A v \in V : \A e \in 1..Len(g[v]) : \A d \in 1..(e - 1) : g[v][d].vertex < g[v][e].vertex
  BY DEF IsView
<1>4. ASSUME NEW v \in V, NEW i \in 1..Len(a[v]), NEW j \in 1..Len(a[v]), i < j
      PROVE  a[v][i] < a[v][j]
  <2>1. Len(g[v]) \in Nat
    BY ViewShape
  <2>2. i \in 1..Len(g[v]) /\ j \in 1..Len(g[v])
    BY <1>2
  <2>3. i \in 1..(j - 1)
    BY <1>4, <2>1, <2>2
  <2>4. g[v][i].vertex < g[v][j].vertex
    BY <1>3, <2>2, <2>3
  <2>5. QED
    BY <1>2, <2>2, <2>4
<1>5. a \in [V -> Seq(V)]
  <2>1. DOMAIN a = V /\ a = [v \in V |-> a[v]]
    BY <1>1
  <2> HIDE DEF a
  <2>2. QED
    BY <1>2, <2>1
<1> HIDE DEF a
<1>6. a \in Adjacencies(V)
  BY <1>4, <1>5 DEF Adjacencies
<1>7. QED
  BY <1>6 DEF a

\* split_static_search leaves no cycle out and none for two to count, whatever the
\* graph, the cutoff and the bound: the host counts the cycles shorter than the
\* cutoff, and each of the others begins with the path of one item.
THEOREM SplitCountsOnceAlways == Spec => []SplitCountsOnce
<1>1. RequestInv => SplitCountsOnce
  <2>1. SUFFICES ASSUME RequestInv
                 PROVE  SplitCountsOnce
    OBVIOUS
  <2> DEFINE g == Adjacency(request.view)
  <2>2. g \in Adjacencies(V) /\ V \in SUBSET Int
    BY <2>1, RequestView, AdjacencyOfView, ViewShape
  <2>3. ASSUME NEW cutoff \in 2..(N + 1), NEW bound \in 2..N,
               NEW closed, closed = SplitClosed(g, cutoff, bound),
               NEW items, items = SplitItems(g, cutoff, bound)
        PROVE  /\ closed = {c \in Cycles(g, bound) : Len(c) < cutoff}
               /\ UNION {Continuation(g, item, bound) : item \in items} =
                    {c \in Cycles(g, bound) : Len(c) >= cutoff}
               /\ \A item \in items : \A other \in items \ {item} :
                    Continuation(g, item, bound) \cap Continuation(g, other, bound) = {}
    <3>1. cutoff \in Nat /\ cutoff >= 2 /\ bound \in Nat
      OBVIOUS
    <3> HIDE DEF g
    <3>2. QED
      BY <2>2, <2>3, <3>1, SplitIsPartition
  <2> HIDE DEF g
  <2>4. QED
    BY <2>3 DEF SplitCountsOnce, g
<1>2. QED
  BY <1>1, RequestStays, PTL
-----------------------------------------------------------------------------
(***************************************************************************)
(* The frames of a thread.                                                 *)
(***************************************************************************)
Fields == [vertex : Int, edge : Int, active : Int, stamp : Int, stampEnd : Int, arrival : Int]

\* A frame of a search of the packed graph p: its next edge is one of its vertex or
\* past them; in the temporal search the timestamps it has still to visit are those of
\* an edge of its vertex, after its arrival.
Fits(p, temporal, f) ==
  /\ f.vertex \in V
  /\ f.edge \in p.offsets[f.vertex]..p.offsets[f.vertex + 1]
  /\ temporal => f.arrival \in 0..TimeMax
  /\ temporal /\ f.stamp < f.stampEnd =>
       /\ f.active \in p.offsets[f.vertex]..(p.offsets[f.vertex + 1] - 1)
       /\ p.begins[f.active] <= f.stamp
       /\ \A i \in f.stamp..(f.stampEnd - 1) :
            p.timestamps[i] \in 0..TimeMax /\ f.arrival < p.timestamps[i]

\* Frame h is entered by what frame f has consumed last.
Joins(p, temporal, f, h) ==
  LET edge == IF temporal THEN f.active ELSE f.edge - 1
  IN  /\ edge \in p.offsets[f.vertex]..(p.offsets[f.vertex + 1] - 1)
      /\ p.neighbors[edge] = h.vertex
      /\ temporal =>
           /\ f.stamp - 1 \in p.begins[f.active]..(f.stampEnd - 1)
           /\ h.arrival = p.timestamps[f.stamp - 1]
           /\ h.arrival > f.arrival

\* The first frame that runs.
Lowest(mode) == IF mode = "static" THEN 1 ELSE 2

\* The frames up to depth n are a simple path from the item.
PathFits(p, mode, bound, item, path, n) ==
  /\ n \in Lowest(mode)..bound
  /\ path[1].vertex = item.root
  /\ mode # "static" => path[2].vertex = item.first
  /\ \A d \in 1..n : path[d].vertex \in V
  /\ \A c, d \in 1..n : c # d => path[c].vertex # path[d].vertex
  /\ \A d \in Lowest(mode)..n : Fits(p, mode = "temporal", path[d])
  /\ \A d \in Lowest(mode)..(n - 1) : Joins(p, mode = "temporal", path[d], path[d + 1])

\* The frames of thread t in pools.
PathIn(pools, bound, t) == [d \in 1..bound |-> pools[t * bound + d - 1]]

IsItem(mode, item) ==
  /\ item.root \in V
  /\ mode # "static" =>
       item.first \in V /\ item.first # item.root /\ item.start \in 0..TimeMax

-----------------------------------------------------------------------------
(***************************************************************************)
(* The slices of the pools.                                                *)
(***************************************************************************)
LEMMA SliceStep ==
  ASSUME NEW a \in Int, NEW b \in Int, NEW m \in Nat, a < b
  PROVE  a * m \in Int /\ b * m \in Int /\ a * m + m <= b * m
<1>1. b - a - 1 \in Nat
  OBVIOUS
<1>2. \A k \in Nat : k * m >= 0
  OBVIOUS
<1>3. (b - a - 1) * m >= 0
  BY <1>1, <1>2
<1>4. (b - a - 1) * m = b * m - a * m - m
  OBVIOUS
<1>5. QED
  BY <1>3, <1>4

\* A slot of a slice is in the pool, and in no other slice.
LEMMA SlotsApart ==
  ASSUME NEW m \in Nat \ {0}, NEW n \in Nat
  PROVE  /\ \A t \in 0..(n - 1), d \in 1..m : t * m + d - 1 \in 0..(n * m - 1)
         /\ \A t, u \in 0..(n - 1), d, e \in 1..m :
              t * m + d - 1 = u * m + e - 1 => t = u /\ d = e
<1>1. ASSUME NEW t \in 0..(n - 1), NEW d \in 1..m
      PROVE  t * m + d - 1 \in 0..(n * m - 1)
  <2> DEFINE a == t * m
             b == n * m
  <2>1. a \in Int /\ b \in Int /\ a + m <= b
    BY SliceStep
  <2>2. a >= 0
    OBVIOUS
  <2> HIDE DEF a, b
  <2>3. a + d - 1 \in 0..(b - 1)
    BY <2>1, <2>2
  <2>4. QED
    BY <2>3 DEF a, b
<1>2. ASSUME NEW t \in 0..(n - 1), NEW u \in 0..(n - 1), NEW d \in 1..m, NEW e \in 1..m, t < u
      PROVE  t * m + d - 1 < u * m + e - 1
  <2> DEFINE a == t * m
             b == u * m
  <2>1. a \in Int /\ b \in Int /\ a + m <= b
    BY <1>2, SliceStep
  <2> HIDE DEF a, b
  <2>2. a + d - 1 < b + e - 1
    BY <2>1
  <2>3. QED
    BY <2>2 DEF a, b
<1>3. ASSUME NEW t \in 0..(n - 1), NEW u \in 0..(n - 1), NEW d \in 1..m, NEW e \in 1..m,
             t * m + d - 1 = u * m + e - 1
      PROVE  t = u /\ d = e
  <2> DEFINE a == t * m
             b == u * m
  <2>1. a \in Int /\ b \in Int
    OBVIOUS
  <2>2. ~(t < u) /\ ~(u < t)
    <3>1. t < u => a + d - 1 < b + e - 1
      BY <1>2
    <3>2. u < t => b + e - 1 < a + d - 1
      BY <1>2
    <3>3. a + d - 1 = b + e - 1
      BY <1>3
    <3> HIDE DEF a, b
    <3>4. QED
      BY <2>1, <3>1, <3>2, <3>3
  <2>3. t = u
    BY <2>2
  <2>4. a = b /\ a + d - 1 = b + e - 1
    BY <1>3, <2>3
  <2> HIDE DEF a, b
  <2>5. QED
    BY <2>1, <2>3, <2>4
<1>4. QED
  BY <1>1, <1>3

\* Of n threads with slices of m slots, thread t has changed frame d of its path to f,
\* and no path of another thread.
Written(n, m, pools, later, t, d, f) ==
  /\ later \in [0..(n * m - 1) -> Fields]
  /\ PathIn(pools, m, t) \in [1..m -> Fields]
  /\ PathIn(later, m, t) = [PathIn(pools, m, t) EXCEPT ![d] = f]
  /\ \A u \in 0..(n - 1) : u # t => PathIn(later, m, u) = PathIn(pools, m, u)

LEMMA WriteFrame ==
  ASSUME NEW m \in Nat \ {0}, NEW n \in Nat, NEW pools \in [0..(n * m - 1) -> Fields],
         NEW t \in 0..(n - 1), NEW d \in 1..m, NEW f \in Fields,
         NEW later, later = [pools EXCEPT ![t * m + d - 1] = f]
  PROVE  Written(n, m, pools, later, t, d, f)
<1> DEFINE S == 0..(n * m - 1)
           Place(u, e) == u * m + e - 1
<1>1. \A u \in 0..(n - 1), e \in 1..m : Place(u, e) \in S
  BY SlotsApart
<1>2. \A u \in 0..(n - 1), e \in 1..m : Place(u, e) = Place(t, d) => u = t /\ e = d
  BY SlotsApart
<1>3. /\ pools \in [S -> Fields]
      /\ later = [pools EXCEPT ![Place(t, d)] = f]
      /\ \A p, u : PathIn(p, m, u) = [e \in 1..m |-> p[Place(u, e)]]
  BY DEF PathIn
<1> HIDE DEF S, Place
<1>4. later \in [S -> Fields]
  BY <1>1, <1>3
<1>5. \A u \in 0..(n - 1), e \in 1..m :
        later[Place(u, e)] = IF u = t /\ e = d THEN f ELSE pools[Place(u, e)]
  BY <1>1, <1>2, <1>3
<1>6. PathIn(pools, m, t) \in [1..m -> Fields]
  BY <1>1, <1>3
<1>7. PathIn(later, m, t) = [PathIn(pools, m, t) EXCEPT ![d] = f]
  <2>1. /\ PathIn(later, m, t) = [e \in 1..m |-> later[Place(t, e)]]
        /\ PathIn(pools, m, t) = [e \in 1..m |-> pools[Place(t, e)]]
    BY DEF PathIn, Place
  <2>2. \A e \in 1..m : later[Place(t, e)] = IF e = d THEN f ELSE pools[Place(t, e)]
    BY <1>5
  <2>3. QED
    BY <2>1, <2>2, ZenonT(40)
<1>8. ASSUME NEW u \in 0..(n - 1), u # t
      PROVE  PathIn(later, m, u) = PathIn(pools, m, u)
  <2>1. /\ PathIn(later, m, u) = [e \in 1..m |-> later[Place(u, e)]]
        /\ PathIn(pools, m, u) = [e \in 1..m |-> pools[Place(u, e)]]
    BY DEF PathIn, Place
  <2>2. \A e \in 1..m : later[Place(u, e)] = pools[Place(u, e)]
    BY <1>5, <1>8
  <2>3. QED
    BY <2>1, <2>2
<1>9. QED
  BY <1>4, <1>6, <1>7, <1>8 DEF S, Written

-----------------------------------------------------------------------------
(***************************************************************************)
(* The steps of a path.                                                    *)
(***************************************************************************)
\* The top frame goes on; its vertex and arrival stay.
LEMMA PathAdvances ==
  ASSUME NEW p, NEW mode, NEW bound \in Nat, NEW item, NEW path \in [1..bound -> Fields],
         NEW n, PathFits(p, mode, bound, item, path, n), NEW f \in Fields,
         f.vertex = path[n].vertex, f.arrival = path[n].arrival, Fits(p, mode = "temporal", f)
  PROVE  PathFits(p, mode, bound, item, [path EXCEPT ![n] = f], n)
<1> DEFINE q == [path EXCEPT ![n] = f]
<1>1. n \in 1..bound /\ n \in Lowest(mode)..bound /\ Lowest(mode) \in {1, 2} /\ n >= Lowest(mode)
  BY DEF PathFits, Lowest
<1>2. \A d \in 1..n : /\ q[d].vertex = path[d].vertex /\ q[d].arrival = path[d].arrival
                      /\ d # n => q[d] = path[d]
  BY <1>1
<1>3. q[n] = f
  BY <1>1
<1> HIDE DEF q
<1>4. \A d \in Lowest(mode)..n : Fits(p, mode = "temporal", q[d])
  BY <1>1, <1>2, <1>3 DEF PathFits
<1>5. ASSUME NEW d \in Lowest(mode)..(n - 1)
      PROVE  Joins(p, mode = "temporal", q[d], q[d + 1])
  <2>1. d \in 1..n /\ d + 1 \in 1..n /\ d # n
    BY <1>1
  <2>2. Joins(p, mode = "temporal", path[d], path[d + 1])
    BY <1>5 DEF PathFits
  <2>3. QED
    BY <1>2, <2>1, <2>2 DEF Joins
<1>6. /\ q[1].vertex = item.root
      /\ mode # "static" => q[2].vertex = item.first
      /\ \A d \in 1..n : q[d].vertex \in V
      /\ \A c, d \in 1..n : c # d => q[c].vertex # q[d].vertex
  BY <1>1, <1>2 DEF PathFits, Lowest
<1>7. QED
  BY <1>1, <1>4, <1>5, <1>6 DEF PathFits, q

\* A new frame, entered by what the top frame has consumed.
LEMMA PathGrows ==
  ASSUME NEW p, NEW mode, NEW bound \in Nat, NEW item, NEW path \in [1..bound -> Fields],
         NEW n, PathFits(p, mode, bound, item, path, n), n < bound, NEW h \in Fields,
         Fits(p, mode = "temporal", h), Joins(p, mode = "temporal", path[n], h),
         \A d \in 1..n : path[d].vertex # h.vertex
  PROVE  PathFits(p, mode, bound, item, [path EXCEPT ![n + 1] = h], n + 1)
<1> DEFINE q == [path EXCEPT ![n + 1] = h]
<1>1. n \in 1..bound /\ Lowest(mode) \in {1, 2} /\ n >= Lowest(mode) /\ n + 1 \in 1..bound
  BY DEF PathFits, Lowest
<1>2. \A d \in 1..n : q[d] = path[d]
  BY <1>1
<1>3. q[n + 1] = h /\ h.vertex \in V
  BY <1>1 DEF Fits
<1> HIDE DEF q
<1>4. \A d \in Lowest(mode)..(n + 1) : Fits(p, mode = "temporal", q[d])
  <2>1. \A d \in Lowest(mode)..(n + 1) : d = n + 1 \/ (d \in Lowest(mode)..n /\ d \in 1..n)
    BY <1>1
  <2>2. QED
    BY <1>2, <1>3, <2>1 DEF PathFits
<1>5. ASSUME NEW d \in Lowest(mode)..n
      PROVE  Joins(p, mode = "temporal", q[d], q[d + 1])
  <2>1. d \in 1..n
    BY <1>1
  <2>2. CASE d = n
    BY <1>2, <1>3, <2>1, <2>2
  <2>3. CASE d # n
    <3>1. d \in Lowest(mode)..(n - 1) /\ d + 1 \in 1..n
      BY <1>1, <2>1, <2>3
    <3>2. QED
      BY <1>2, <2>1, <3>1 DEF PathFits
  <2>4. QED
    BY <2>2, <2>3
<1>6. \A d \in 1..(n + 1) : d \in 1..n \/ d = n + 1
  BY <1>1
<1>7. /\ q[1].vertex = item.root
      /\ mode # "static" => q[2].vertex = item.first
  BY <1>1, <1>2 DEF PathFits, Lowest
<1>8. /\ \A d \in 1..(n + 1) : q[d].vertex \in V
      /\ \A c, d \in 1..(n + 1) : c # d => q[c].vertex # q[d].vertex
  BY <1>2, <1>3, <1>6 DEF PathFits
<1>9. n + 1 \in Lowest(mode)..bound /\ (n + 1) - 1 = n
  BY <1>1
<1>10. QED
  BY <1>4, <1>5, <1>7, <1>8, <1>9 DEF PathFits, q

LEMMA PathShrinks ==
  ASSUME NEW p, NEW mode, NEW bound \in Nat, NEW item, NEW path,
         NEW n, PathFits(p, mode, bound, item, path, n), n # Lowest(mode)
  PROVE  PathFits(p, mode, bound, item, path, n - 1)
<1>1. n \in Nat /\ Lowest(mode) \in {1, 2} /\ n > Lowest(mode) /\ n <= bound
  BY DEF PathFits, Lowest
<1>2. /\ \A d \in 1..(n - 1) : d \in 1..n
      /\ \A d \in Lowest(mode)..(n - 1) : d \in Lowest(mode)..n
      /\ \A d \in Lowest(mode)..((n - 1) - 1) : d \in Lowest(mode)..(n - 1)
      /\ n - 1 \in Lowest(mode)..bound
  BY <1>1
<1>3. QED
  BY <1>2 DEF PathFits
-----------------------------------------------------------------------------
(***************************************************************************)
(* The work.                                                               *)
(***************************************************************************)
LEMMA FlattenIn ==
  ASSUME NEW S, NEW n \in Nat, NEW s, s = [i \in 1..n |-> s[i]], \A i \in 1..n : s[i] \in Seq(S)
  PROVE  FlattenSeq(s) \in Seq(S)
<1>1. InPlace(S, n, s)
  BY FlattenPlaces
<1>2. Flat(s, n) \in Seq(S)
  BY <1>1 DEF InPlace
<1>3. Prefix(s, n) = s
  BY DEF Prefix
<1>4. QED
  BY <1>2, <1>3 DEF Flat

\* The start events of views.
Events ==
  {event \in [root : V, first : V, start : 0..TimeMax, of : [root : V, entry : Nat, at : Nat]] :
     event.first # event.root}

LEMMA EventsOfView ==
  ASSUME NEW g, IsView(g)
  PROVE  StartEvents(g) \in Seq(Events)
<1>1. ASSUME NEW v \in V, NEW e \in 1..Len(g[v])
      PROVE  EntryEvents(g, v, e) \in Seq(Events)
  <2> DEFINE times == g[v][e].times
             event(k) == [root |-> v, first |-> g[v][e].vertex, start |-> times[k],
                          of |-> [root |-> v, entry |-> e, at |-> k]]
  <2>1. Len(times) \in Nat /\ g[v][e].vertex \in V /\ e \in Nat /\ g[v][e].vertex # v
    <3>1. Len(times) \in Nat /\ g[v][e].vertex \in V /\ Len(g[v]) \in Nat
      BY ViewShape
    <3>2. g[v][e].vertex # v
      BY DEF IsView
    <3>3. QED
      BY <3>1, <3>2
  <2>2. \A k \in 1..Len(times) : times[k] \in 0..TimeMax
    BY ViewShape
  <2>3. \A k \in 1..Len(times) : event(k) \in Events
    <3> HIDE DEF times
    <3>1. \A k \in 1..Len(times) :
            event(k) \in [root : V, first : V, start : 0..TimeMax,
                          of : [root : V, entry : Nat, at : Nat]]
      BY <2>1, <2>2
    <3>2. \A k \in 1..Len(times) : event(k).first # event(k).root
      BY <2>1
    <3>3. QED
      BY <3>1, <3>2 DEF Events
  <2>4. EntryEvents(g, v, e) = [k \in 1..Len(times) |-> event(k)]
    BY DEF EntryEvents
  <2> HIDE DEF times, event
  <2>5. QED
    BY <2>1, <2>3, <2>4
<1>2. ASSUME NEW v \in V
      PROVE  VertexEvents(g, v) \in Seq(Events)
  <2> DEFINE n == Len(g[v])
             s == [e \in 1..n |-> EntryEvents(g, v, e)]
  <2>1. n \in Nat
    BY ViewShape
  <2>2. \A e \in 1..n : s[e] \in Seq(Events)
    BY <1>1
  <2>3. s = [e \in 1..n |-> s[e]]
    OBVIOUS
  <2>4. VertexEvents(g, v) = FlattenSeq(s)
    BY DEF VertexEvents
  <2> HIDE DEF s, n
  <2>5. QED
    BY <2>1, <2>2, <2>3, <2>4, FlattenIn
<1>3. QED
  <2> DEFINE s == [i \in 1..N |-> VertexEvents(g, i - 1)]
  <2>1. N \in Nat /\ \A i \in 1..N : i - 1 \in V
    BY ViewShape DEF V
  <2>2. \A i \in 1..N : s[i] \in Seq(Events)
    BY <1>2, <2>1
  <2>3. s = [i \in 1..N |-> s[i]]
    OBVIOUS
  <2>4. StartEvents(g) = FlattenSeq(s)
    BY DEF StartEvents
  <2> HIDE DEF s
  <2>5. QED
    BY <2>1, <2>2, <2>3, <2>4, FlattenIn

LEMMA TemporalEventsOfView ==
  ASSUME NEW g, IsView(g), NEW width
  PROVE  TemporalStartEvents(g, width) \in Seq(Events)
<1> DEFINE all == StartEvents(g)
           n == Len(all)
           keeps(event) == Union(g, event.root, event.first, event.start, width) # {}
           s == [i \in 1..n |-> IF keeps(all[i]) THEN <<all[i]>> ELSE << >>]
<1>1. TemporalStartEvents(g, width) = FlattenSeq(s)
  BY DEF TemporalStartEvents
<1>2. all \in Seq(Events)
  BY EventsOfView
<1> HIDE DEF all, keeps
<1>3. n \in Nat /\ \A i \in 1..n : all[i] \in Events
  BY <1>2
<1>4. \A i \in 1..n : s[i] \in Seq(Events)
  BY <1>3
<1>5. s = [i \in 1..n |-> s[i]]
  OBVIOUS
<1> HIDE DEF s, n
<1>6. QED
  BY <1>1, <1>3, <1>4, <1>5, FlattenIn

LEMMA WorkIsItems ==
  ASSUME RequestInv
  PROVE  Len(Work) \in Nat /\ \A i \in 1..Len(Work) : IsItem(Mode, Work[i])
<1>1. IsView(request.view) /\ Mode \in Modes
  BY RequestView
<1>2. CASE Mode = "static"
  <2>1. Work = [i \in 1..N |-> [root |-> i - 1]]
    BY <1>2 DEF Work, Roots
  <2>2. N \in Nat /\ \A i \in 1..N : i - 1 \in V
    BY <1>1, ViewShape DEF V
  <2>3. Len(Work) = N
    BY <2>1, <2>2
  <2>4. QED
    BY <1>2, <2>1, <2>2, <2>3 DEF IsItem
<1>3. CASE Mode # "static"
  <2>1. Work \in Seq(Events)
    BY <1>1, <1>3, EventsOfView, TemporalEventsOfView DEF Work, Modes
  <2>2. Len(Work) \in Nat /\ \A i \in 1..Len(Work) : Work[i] \in Events
    BY <2>1
  <2>3. QED
    BY <2>2 DEF IsItem, Events
<1>4. QED
  BY <1>2, <1>3

-----------------------------------------------------------------------------
(***************************************************************************)
(* The entries of a vertex and the timestamps of an entry.                 *)
(***************************************************************************)
LEMMA EdgeOfVertex ==
  ASSUME NEW g, IsView(g), NEW p, PackedFrom(p, g), NEW v \in V
  PROVE  /\ p.offsets[v] \in Nat /\ p.offsets[v + 1] \in Nat /\ p.offsets[v] <= p.offsets[v + 1]
         /\ \A x \in p.offsets[v]..(p.offsets[v + 1] - 1) :
              /\ p.neighbors[x] \in V /\ p.neighbors[x] # v /\ p.begins[x] \in Nat
              /\ \E e \in 1..Len(g[v]) : x = p.offsets[v] + e - 1
<1> DEFINE a == p.offsets[v]
           b == p.offsets[v + 1]
<1>1. Len(g[v]) \in Nat /\ v \in 0..N /\ v + 1 \in 0..N
  BY ViewShape DEF V
<1>2. a \in Nat /\ b = a + Len(g[v])
  BY <1>1 DEF PackedFrom
<1>3. ASSUME NEW x \in a..(b - 1)
      PROVE  /\ p.neighbors[x] \in V /\ p.neighbors[x] # v /\ p.begins[x] \in Nat
             /\ \E e \in 1..Len(g[v]) : x = a + e - 1
  <2>1. PICK e \in 1..Len(g[v]) : x = a + e - 1
    <3> HIDE DEF a, b
    <3>1. x - a + 1 \in 1..Len(g[v]) /\ x = a + (x - a + 1) - 1
      BY <1>1, <1>2
    <3>2. QED
      BY <3>1
  <2>2. p.neighbors[x] = g[v][e].vertex /\ p.begins[x] \in Nat
    BY <2>1 DEF PackedFrom
  <2>3. g[v][e].vertex \in V /\ g[v][e].vertex # v
    BY ViewShape DEF IsView
  <2>4. QED
    BY <2>1, <2>2, <2>3
<1>4. a <= b /\ b \in Nat
  <2> HIDE DEF a, b
  <2>1. QED
    BY <1>1, <1>2
<1>5. QED
  BY <1>2, <1>3, <1>4

\* The bounds of a range are positions.
LEMMA AfterInts ==
  ASSUME NEW values, NEW begin, NEW end, Ascending(values, begin, end),
         NEW previous \in Int, NEW windowEnd \in Int,
         NEW range, range = DeviceAfter(values, begin, end, previous, windowEnd)
  PROVE  range.begin \in Int /\ range.end \in Int
<1> DEFINE first == UpperBound(values, begin, end, previous)
           last == UpperBound(values, first, end, windowEnd)
<1>1. begin \in Nat /\ end \in Nat /\ begin <= end
  BY DEF Ascending
<1>2. first \in begin..end
  BY UpperBoundSplits
<1>3. Ascending(values, first, end)
  <2> HIDE DEF first
  <2>1. first \in Nat /\ first <= end /\ first >= begin
    BY <1>1, <1>2
  <2>2. QED
    BY <2>1 DEF Ascending
<1>4. last \in first..end
  <2> HIDE DEF first
  <2>1. QED
    BY <1>3, UpperBoundSplits
<1>5. range = [begin |-> first, end |-> last]
  BY <1>1 DEF DeviceAfter
<1> HIDE DEF first, last
<1>6. QED
  BY <1>1, <1>2, <1>4, <1>5

\* What an activation finds are timestamps of the entry after the arrival.
LEMMA ActivationFinds ==
  ASSUME NEW g, IsView(g), NEW p, PackedFrom(p, g), NEW v \in V,
         NEW x \in p.offsets[v]..(p.offsets[v + 1] - 1),
         NEW arrival \in 0..TimeMax, NEW end \in Int,
         NEW range, range = DeviceAfter(p.timestamps, p.begins[x], p.ends[x], arrival, end)
  PROVE  /\ range.begin \in Int /\ range.end \in Int
         /\ ~IsEmpty(range) => p.begins[x] <= range.begin
         /\ \A i \in range.begin..(range.end - 1) :
              p.timestamps[i] \in 0..TimeMax /\ arrival < p.timestamps[i]
<1>1. PICK e \in 1..Len(g[v]) : x = p.offsets[v] + e - 1
  BY EdgeOfVertex, SMTT(30)
<1> DEFINE entry == g[v][e]
           times == entry.times
           b == p.begins[x]
<1>2. EntryAgrees(p, entry, v, x, arrival)
  BY <1>1, EntrySearches
<1>3. Positions(range) = {i + b - 1 : i \in TimestampsAfter(entry, arrival, end)}
  BY <1>2 DEF EntryAgrees
<1>4. /\ Ascending(p.timestamps, b, p.ends[x]) /\ b \in Nat
      /\ \A j \in 1..Len(times) : p.timestamps[j + b - 1] = times[j]
  <2>1. EntryFits(p, entry, x)
    BY <1>1, EntryAscends
  <2>2. QED
    BY <2>1 DEF EntryFits
<1>5. TimeMax \in Nat /\ \A j \in 1..Len(times) : times[j] \in 0..TimeMax
  BY ViewShape
<1>6. range.begin \in Int /\ range.end \in Int
  <2>1. arrival \in Int
    OBVIOUS
  <2>2. QED
    BY <1>4, <2>1, AfterInts
<1>7. TimestampsAfter(entry, arrival, end) =
        {j \in 1..Len(times) : arrival < times[j] /\ times[j] <= end}
  BY DEF TimestampsAfter
<1> HIDE DEF entry, times, b
<1>8. ASSUME NEW i \in range.begin..(range.end - 1)
      PROVE  b <= i /\ p.timestamps[i] \in 0..TimeMax /\ arrival < p.timestamps[i]
  <2>1. i \in Positions(range)
    BY DEF Positions
  <2>2. PICK j \in 1..Len(times) : arrival < times[j] /\ i = j + b - 1
    BY <1>3, <1>7, <2>1
  <2>3. p.timestamps[i] = times[j]
    BY <1>4, <2>2
  <2>4. b <= i
    BY <1>4, <2>2
  <2>5. QED
    BY <1>5, <2>2, <2>3, <2>4
<1>9. ~IsEmpty(range) => b <= range.begin
  <2>1. ~IsEmpty(range) => range.begin \in range.begin..(range.end - 1)
    BY <1>6 DEF IsEmpty
  <2>2. QED
    BY <1>8, <2>1
<1>10. QED
  BY <1>6, <1>8, <1>9 DEF b
-----------------------------------------------------------------------------
(***************************************************************************)
(* The invariant of the searches.                                          *)
(***************************************************************************)
Places == {"clear", "cleared", "begin", "search", "drained", "flush", "exited"}

\* Thread t has an item, and its slice holds a path from there.
ThreadFits(t) ==
  HasWork(t) /\ PathFits(packed, Mode, Bound, Item(t), PathIn(frames, Bound, t), depth[t])

\* A kernel is launched on the packed view.
Launched ==
  /\ packed = Pack(request.view)
  /\ Bound >= 2
  /\ Len(work) \in Nat
  /\ \A i \in 1..Len(work) : IsItem(Mode, work[i])
  /\ pc \in [Threads -> Places]
  /\ depth \in [Threads -> Int]
  /\ frames \in [0..(Len(work) * Bound - 1) -> Fields]

SearchInv ==
  /\ RequestInv
  /\ host = "idle" => work = << >>
  /\ work # << >> => Launched /\ \A t \in Threads : pc[t] = "search" => ThreadFits(t)

LEMMA NoThreads ==
  ASSUME work = << >>
  PROVE  Threads = {} /\ Blocks = {}
<1>1. BlockSize \in Nat \ {0}
  BY KernelAssumption
<1>2. (BlockSize - 1) \div BlockSize = 0
  BY <1>1
<1>3. GridBlocks(Len(work)) = 0
  BY <1>1, <1>2 DEF GridBlocks
<1>4. QED
  BY <1>1, <1>3 DEF Threads, Blocks

\* What a searching thread reads.
LEMMA ReadsPath ==
  ASSUME SearchInv, NEW t \in Threads, pc[t] = "search", NEW path, path = PathIn(frames, Bound, t)
  PROVE  /\ Launched /\ work # << >>
         /\ IsView(request.view) /\ PackedFrom(packed, request.view) /\ Mode \in Modes
         /\ request.width \in Int /\ Bound \in Nat \ {0}
         /\ t \in 0..(Len(work) - 1) /\ IsItem(Mode, Item(t))
         /\ PathFits(packed, Mode, Bound, Item(t), path, depth[t])
         /\ path \in [1..Bound -> Fields]
         /\ depth[t] \in 1..Bound /\ Top(t) = path[depth[t]]
         /\ \A d \in 1..Bound : Slot(t, d) = t * Bound + d - 1 /\ frames[Slot(t, d)] = path[d]
<1>1. work # << >>
  BY NoThreads
<1>2. Launched /\ HasWork(t) /\ PathFits(packed, Mode, Bound, Item(t), path, depth[t])
  BY <1>1 DEF SearchInv, ThreadFits
<1>3. IsView(request.view) /\ Mode \in Modes /\ request.width \in Int /\ Bound \in Nat \ {0}
  BY <1>2, RequestView DEF SearchInv, Launched
<1>4. PackedFrom(packed, request.view)
  BY <1>2, <1>3, PackFacts DEF Launched
<1>5. t \in 0..(Len(work) - 1) /\ t + 1 \in 1..Len(work)
  <2>1. t \in Nat
    BY DEF Threads
  <2>2. QED
    BY <1>2, <2>1 DEF HasWork, Launched
<1>6. IsItem(Mode, Item(t))
  BY <1>2, <1>5 DEF Launched, Item
<1>7. /\ \A d \in 1..Bound : Slot(t, d) = t * Bound + d - 1 /\ frames[Slot(t, d)] = path[d]
      /\ path \in [1..Bound -> Fields]
  <2>1. \A d \in 1..Bound : Slot(t, d) = t * Bound + d - 1
    BY DEF Slot, Base
  <2>2. \A d \in 1..Bound : t * Bound + d - 1 \in 0..(Len(work) * Bound - 1)
    BY <1>2, <1>3, <1>5, SlotsApart DEF Launched
  <2>3. \A d \in 1..Bound : path[d] = frames[t * Bound + d - 1]
    BY DEF PathIn
  <2>4. \A d \in 1..Bound : path[d] \in Fields
    BY <1>2, <2>2, <2>3 DEF Launched
  <2>5. path = [d \in 1..Bound |-> path[d]]
    BY DEF PathIn
  <2>6. QED
    BY <2>1, <2>3, <2>4, <2>5
<1>8. depth[t] \in 1..Bound
  BY <1>2, <1>3 DEF PathFits, Lowest
<1>9. QED
  BY <1>1, <1>2, <1>3, <1>4, <1>5, <1>6, <1>7, <1>8 DEF Top

\* A step of one thread: what it writes leaves the paths of the others alone.
LEMMA StepOfThread ==
  ASSUME SearchInv, NEW t \in Threads,
         UNCHANGED <<request, host, packed, work>>,
         pc' \in [Threads -> Places], depth' \in [Threads -> Int],
         frames' \in [0..(Len(work) * Bound - 1) -> Fields],
         \A u \in Threads \ {t} : /\ pc'[u] = pc[u] /\ depth'[u] = depth[u]
                                  /\ HasWork(u) => PathIn(frames', Bound, u) = PathIn(frames, Bound, u),
         pc'[t] = "search" =>
           /\ HasWork(t)
           /\ PathFits(packed, Mode, Bound, Item(t), PathIn(frames', Bound, t), depth'[t])
  PROVE  SearchInv'
<1>1. Threads' = Threads /\ Mode' = Mode /\ Bound' = Bound
  BY DEF Threads, Mode, Bound
<1>2. work # << >> /\ Launched
  BY NoThreads DEF SearchInv
<1>3. Launched'
  BY <1>1, <1>2 DEF Launched
<1>4. ASSUME NEW u \in Threads, pc'[u] = "search"
      PROVE  ThreadFits(u)'
  <2>1. HasWork(u) /\ PathFits(packed, Mode, Bound, Item(u), PathIn(frames', Bound, u), depth'[u])
    <3>1. CASE u = t
      BY <1>4, <3>1
    <3>2. CASE u # t
      <4>1. ThreadFits(u)
        BY <1>2, <1>4, <3>2 DEF SearchInv
      <4>2. QED
        BY <3>2, <4>1 DEF ThreadFits
    <3>3. QED
      BY <3>1, <3>2
  <2>2. HasWork(u)' = HasWork(u) /\ Item(u)' = Item(u)
    BY DEF HasWork, Item
  <2>3. QED
    BY <1>1, <2>1, <2>2 DEF ThreadFits
<1>5. QED
  BY <1>1, <1>3, <1>4 DEF SearchInv, RequestInv
-----------------------------------------------------------------------------
(***************************************************************************)
(* The steps of a search.                                                  *)
(***************************************************************************)
\* The frame of a vertex before any of its edges.
FrameOpens(mode, v, arrival) ==
  /\ FrameAt(v, arrival) \in Fields
  /\ FrameAt(v, arrival).vertex = v /\ FrameAt(v, arrival).arrival = arrival
  /\ Fits(packed, mode = "temporal", FrameAt(v, arrival))

LEMMA FrameStarts ==
  ASSUME NEW g, IsView(g), PackedFrom(packed, g), NEW v \in V, NEW arrival \in Int,
         NEW mode, mode = "temporal" => arrival \in 0..TimeMax
  PROVE  FrameOpens(mode, v, arrival)
<1> DEFINE f == FrameAt(v, arrival)
           a == packed.offsets[v]
           b == packed.offsets[v + 1]
<1>1. a \in Nat /\ b \in Nat /\ a <= b /\ v \in Int
  <2>1. v \in Int
    BY ViewShape
  <2>2. QED
    BY <2>1, EdgeOfVertex
<1>2. f = [JunkFrame EXCEPT !.vertex = v, !.edge = a, !.active = 0, !.stamp = 0,
                            !.stampEnd = 0, !.arrival = arrival]
  BY DEF FrameAt
<1>3. JunkFrame \in Fields
  BY KernelAssumption DEF JunkFrame, Fields
<1> HIDE DEF f, a, b
<1>4. f \in Fields /\ f.vertex = v /\ f.arrival = arrival /\ f.edge = a /\ ~(f.stamp < f.stampEnd)
  <2>1. v \in Int /\ a \in Int /\ 0 \in Int /\ arrival \in Int
    BY <1>1
  <2>2. f \in Fields
    BY <1>2, <1>3, <2>1, Zenon DEF Fields
  <2>3. f.vertex = v /\ f.edge = a /\ f.stamp = 0 /\ f.stampEnd = 0 /\ f.arrival = arrival
    BY <1>2, <1>3 DEF Fields
  <2>4. QED
    BY <2>2, <2>3
<1>5. a \in a..b
  BY <1>1
<1>6. Fits(packed, mode = "temporal", f)
  BY <1>4, <1>5 DEF Fits, a, b
<1>7. QED
  BY <1>4, <1>6 DEF FrameOpens, f

\* What the top frame leads to, and the frame once it is past that.
LEMMA AdvancedFits ==
  ASSUME SearchInv, NEW t \in Threads, pc[t] = "search", HasNext(t)
  PROVE  /\ Advanced(t) \in Fields
         /\ Advanced(t).vertex = Top(t).vertex /\ Advanced(t).arrival = Top(t).arrival
         /\ Fits(packed, Mode = "temporal", Advanced(t))
         /\ NextVertex(t) \in V
         /\ Mode = "temporal" => packed.timestamps[Top(t).stamp] \in 0..TimeMax
         /\ \A h : /\ h.vertex = NextVertex(t)
                   /\ Mode = "temporal" => h.arrival = packed.timestamps[Top(t).stamp]
                   => Joins(packed, Mode = "temporal", Advanced(t), h)
<1> DEFINE f == Top(t)
           w == NextVertex(t)
           a == packed.offsets[f.vertex]
           b == packed.offsets[f.vertex + 1]
<1>1. /\ IsView(request.view) /\ PackedFrom(packed, request.view)
      /\ f \in Fields /\ Fits(packed, Mode = "temporal", f)
  <2> DEFINE path == PathIn(frames, Bound, t)
  <2>1. /\ IsView(request.view) /\ PackedFrom(packed, request.view)
        /\ PathFits(packed, Mode, Bound, Item(t), path, depth[t])
        /\ path \in [1..Bound -> Fields]
        /\ depth[t] \in 1..Bound /\ Top(t) = path[depth[t]]
    BY ReadsPath
  <2>2. depth[t] \in Lowest(Mode)..depth[t]
    BY <2>1 DEF PathFits, Lowest
  <2>3. QED
    BY <2>1, <2>2 DEF PathFits
<1>2. f.vertex \in V
  BY <1>1 DEF Fits
<1>3. /\ a \in Nat /\ b \in Nat /\ a <= b
      /\ \A x \in a..(b - 1) : packed.neighbors[x] \in V /\ packed.begins[x] \in Nat
  BY <1>1, <1>2, EdgeOfVertex
<1>4. CASE Mode = "temporal"
  <2> DEFINE h0 == Advanced(t)
  <2>1. h0 = [f EXCEPT !.stamp = @ + 1] /\ w = packed.neighbors[f.active] /\ f.stamp < f.stampEnd
    BY <1>4 DEF Advanced, NextVertex, NextEdge, HasNext, HasStamp
  <2> HIDE DEF f, w, h0, a, b
  <2>2. /\ h0 \in Fields /\ h0.vertex = f.vertex /\ h0.arrival = f.arrival
        /\ h0.edge = f.edge /\ h0.active = f.active /\ h0.stampEnd = f.stampEnd
        /\ h0.stamp = f.stamp + 1
        /\ f.stamp \in Int /\ f.stampEnd \in Int /\ f.active \in Int
    BY <1>1, <2>1 DEF Fields
  <2>3. /\ f.active \in a..(b - 1) /\ packed.begins[f.active] <= f.stamp
        /\ f.edge \in a..b /\ f.arrival \in 0..TimeMax
        /\ \A i \in f.stamp..(f.stampEnd - 1) :
             packed.timestamps[i] \in 0..TimeMax /\ f.arrival < packed.timestamps[i]
    BY <1>1, <1>4, <2>1 DEF Fits, a, b
  <2>4. f.stamp \in f.stamp..(f.stampEnd - 1)
    BY <2>1, <2>2
  <2>5. packed.timestamps[f.stamp] \in 0..TimeMax /\ f.arrival < packed.timestamps[f.stamp]
    BY <2>3, <2>4
  <2>6. w \in V
    BY <1>3, <2>1, <2>3
  <2>7. \A i \in h0.stamp..(h0.stampEnd - 1) : i \in f.stamp..(f.stampEnd - 1)
    BY <2>2
  <2>8. packed.begins[f.active] <= h0.stamp
    BY <1>3, <2>2, <2>3
  <2>9. Fits(packed, Mode = "temporal", h0)
    BY <1>2, <2>2, <2>3, <2>7, <2>8 DEF Fits, a, b
  <2>10. h0.stamp - 1 = f.stamp /\ f.stamp \in packed.begins[f.active]..(f.stampEnd - 1)
    BY <1>3, <2>1, <2>2, <2>3
  <2>11. ASSUME NEW h, h.vertex = w, h.arrival = packed.timestamps[f.stamp]
         PROVE  Joins(packed, Mode = "temporal", h0, h)
    BY <1>4, <2>1, <2>2, <2>3, <2>5, <2>10, <2>11 DEF Joins, a, b
  <2>12. QED
    BY <1>4, <2>2, <2>5, <2>6, <2>9, <2>11 DEF h0, f, w
<1>5. CASE Mode # "temporal"
  <2> DEFINE h0 == Advanced(t)
  <2>1. h0 = [f EXCEPT !.edge = @ + 1] /\ w = packed.neighbors[f.edge] /\ f.edge < b
    BY <1>5 DEF Advanced, NextVertex, NextEdge, HasNext, HasEdge
  <2> HIDE DEF f, w, h0, a, b
  <2>2. /\ h0 \in Fields /\ h0.vertex = f.vertex /\ h0.arrival = f.arrival
        /\ h0.edge = f.edge + 1 /\ f.edge \in Int
    BY <1>1, <2>1 DEF Fields
  <2>3. f.edge \in a..b
    BY <1>1 DEF Fits, a, b
  <2>4. f.edge \in a..(b - 1) /\ h0.edge \in a..b /\ h0.edge - 1 = f.edge
    BY <1>3, <2>1, <2>2, <2>3
  <2>5. w \in V
    BY <1>3, <2>1, <2>4
  <2>6. Fits(packed, Mode = "temporal", h0)
    BY <1>2, <1>5, <2>2, <2>4 DEF Fits, a, b
  <2>7. ASSUME NEW h, h.vertex = w
        PROVE  Joins(packed, Mode = "temporal", h0, h)
    BY <1>5, <2>1, <2>2, <2>4, <2>7 DEF Joins, a, b
  <2>8. QED
    BY <1>5, <2>2, <2>5, <2>6, <2>7 DEF h0, f, w
<1>6. QED
  BY <1>4, <1>5

\* A step that only writes the top frame, with its vertex and arrival.
LEMMA TopChanges ==
  ASSUME SearchInv, NEW t \in Threads, pc[t] = "search",
         UNCHANGED <<request, host, packed, work, pc, depth>>, NEW f \in Fields,
         f.vertex = Top(t).vertex, f.arrival = Top(t).arrival,
         Fits(packed, Mode = "temporal", f),
         frames' = [frames EXCEPT ![Slot(t, depth[t])] = f]
  PROVE  SearchInv'
<1> DEFINE path == PathIn(frames, Bound, t)
<1>1. /\ Launched /\ work # << >> /\ Bound \in Nat \ {0}
      /\ t \in 0..(Len(work) - 1)
      /\ PathFits(packed, Mode, Bound, Item(t), path, depth[t])
      /\ path \in [1..Bound -> Fields]
      /\ depth[t] \in 1..Bound /\ Top(t) = path[depth[t]]
      /\ Slot(t, depth[t]) = t * Bound + depth[t] - 1
  BY ReadsPath
<1>2. Len(work) \in Nat /\ frames \in [0..(Len(work) * Bound - 1) -> Fields]
      /\ pc \in [Threads -> Places] /\ depth \in [Threads -> Int]
  BY <1>1 DEF Launched
<1>3. frames' = [frames EXCEPT ![t * Bound + depth[t] - 1] = f]
  BY <1>1
<1>4. /\ frames' \in [0..(Len(work) * Bound - 1) -> Fields]
      /\ PathIn(frames', Bound, t) = [path EXCEPT ![depth[t]] = f]
      /\ \A u \in 0..(Len(work) - 1) : u # t => PathIn(frames', Bound, u) = PathIn(frames, Bound, u)
  <2>1. Written(Len(work), Bound, frames, frames', t, depth[t], f)
    BY <1>1, <1>2, <1>3, WriteFrame
  <2>2. QED
    BY <2>1 DEF Written
<1>5. PathFits(packed, Mode, Bound, Item(t), PathIn(frames', Bound, t), depth'[t])
  <2> HIDE DEF path
  <2>1. Bound \in Nat
    BY <1>1
  <2>2. PathFits(packed, Mode, Bound, Item(t), [path EXCEPT ![depth[t]] = f], depth[t])
    BY <1>1, <2>1, PathAdvances
  <2>3. QED
    BY <1>4, <2>2
<1>6. HasWork(t) /\ \A u \in Threads : HasWork(u) => u \in 0..(Len(work) - 1)
  <2>1. Threads \subseteq Nat
    BY DEF Threads
  <2>2. QED
    BY <1>1, <1>2, <2>1 DEF HasWork
<1>7. QED
  BY <1>2, <1>4, <1>5, <1>6, StepOfThread

LEMMA AdvanceKeeps ==
  ASSUME SearchInv, NEW t \in Threads, CountCycle(t) \/ Skip(t)
  PROVE  SearchInv'
<1>1. /\ pc[t] = "search" /\ HasNext(t)
      /\ UNCHANGED <<request, host, packed, work, pc, depth>>
      /\ frames' = [frames EXCEPT ![Slot(t, depth[t])] = Advanced(t)]
  BY DEF CountCycle, Skip, Frame
<1>2. QED
  BY <1>1, AdvancedFits, TopChanges

LEMMA ActivateKeeps ==
  ASSUME SearchInv, NEW t \in Threads, Activate(t)
  PROVE  SearchInv'
<1> DEFINE f == Top(t)
           range == DeviceAfter(packed.timestamps, packed.begins[f.edge], packed.ends[f.edge],
                                f.arrival, Item(t).start + request.width)
           passed == [f EXCEPT !.edge = @ + 1]
           h == IF IsEmpty(range) THEN passed
                ELSE [passed EXCEPT !.active = f.edge, !.stamp = range.begin,
                                    !.stampEnd = range.end]
<1>1. /\ pc[t] = "search" /\ Mode = "temporal" /\ ~HasStamp(t) /\ HasEdge(t)
      /\ UNCHANGED <<request, host, packed, work, pc, depth>>
      /\ frames' = [frames EXCEPT ![Slot(t, depth[t])] = h]
  BY DEF Activate, Frame
<1>2. /\ IsView(request.view) /\ PackedFrom(packed, request.view)
      /\ f \in Fields /\ Fits(packed, TRUE, f) /\ Item(t).start + request.width \in Int
  <2> DEFINE path == PathIn(frames, Bound, t)
  <2>1. /\ IsView(request.view) /\ PackedFrom(packed, request.view)
        /\ PathFits(packed, Mode, Bound, Item(t), path, depth[t])
        /\ path \in [1..Bound -> Fields] /\ request.width \in Int /\ IsItem(Mode, Item(t))
        /\ depth[t] \in 1..Bound /\ Top(t) = path[depth[t]]
    BY <1>1, ReadsPath
  <2>2. depth[t] \in Lowest(Mode)..depth[t]
    BY <2>1 DEF PathFits, Lowest
  <2>3. Fits(packed, Mode = "temporal", f) /\ (Mode = "temporal") = TRUE
    BY <1>1, <2>1, <2>2 DEF PathFits
  <2>4. Item(t).start \in Int
    BY <1>1, <2>1 DEF IsItem
  <2>5. Fits(packed, TRUE, f)
    BY <1>1, <2>3 DEF Fits
  <2>6. f \in Fields /\ Item(t).start + request.width \in Int
    <3> HIDE DEF path
    <3>1. QED
      BY <2>1, <2>4
  <2>7. QED
    BY <2>1, <2>5, <2>6
<1> HIDE DEF f, range, passed, h
<1>3. f.vertex \in V
  BY <1>2 DEF Fits
<1> DEFINE a == packed.offsets[f.vertex]
           b == packed.offsets[f.vertex + 1]
<1>4. /\ a \in Nat /\ b \in Nat /\ \A x \in a..(b - 1) : packed.begins[x] \in Nat
  BY <1>2, <1>3, EdgeOfVertex
<1>5. f.edge \in a..(b - 1) /\ f.arrival \in 0..TimeMax /\ ~(f.stamp < f.stampEnd) /\ f.edge \in Int
  <2>1. f.edge < b /\ ~(f.stamp < f.stampEnd)
    BY <1>1 DEF HasEdge, HasStamp, f
  <2>2. f.edge \in a..b /\ f.arrival \in 0..TimeMax
    BY <1>2 DEF Fits
  <2>3. f.edge \in Int
    BY <1>2 DEF Fields
  <2> HIDE DEF a, b
  <2>4. QED
    BY <1>4, <2>1, <2>2, <2>3
<1>6. /\ range.begin \in Int /\ range.end \in Int
      /\ ~IsEmpty(range) => packed.begins[f.edge] <= range.begin
      /\ \A i \in range.begin..(range.end - 1) :
           packed.timestamps[i] \in 0..TimeMax /\ f.arrival < packed.timestamps[i]
  BY <1>2, <1>3, <1>5, ActivationFinds DEF range
<1>7. /\ passed \in Fields /\ passed.vertex = f.vertex /\ passed.arrival = f.arrival
      /\ passed.edge = f.edge + 1 /\ passed.stamp = f.stamp /\ passed.stampEnd = f.stampEnd
  BY <1>2, <1>5 DEF passed, Fields
<1>8. f.edge + 1 \in a..b
  <2> HIDE DEF a, b
  <2>1. QED
    BY <1>4, <1>5
<1>9. CASE IsEmpty(range)
  <2>1. h = passed
    BY <1>9 DEF h
  <2>2. Fits(packed, TRUE, h)
    BY <1>3, <1>5, <1>7, <1>8, <2>1 DEF Fits
  <2>3. QED
    BY <1>1, <1>7, <2>1, <2>2, TopChanges DEF f
<1>10. CASE ~IsEmpty(range)
  <2>1. h = [passed EXCEPT !.active = f.edge, !.stamp = range.begin, !.stampEnd = range.end]
    BY <1>10 DEF h
  <2>2. /\ h \in Fields /\ h.vertex = f.vertex /\ h.arrival = f.arrival
        /\ h.edge = f.edge + 1 /\ h.active = f.edge /\ h.stamp = range.begin
        /\ h.stampEnd = range.end
    BY <1>5, <1>6, <1>7, <2>1 DEF Fields
  <2>3. Fits(packed, TRUE, h)
    BY <1>3, <1>5, <1>6, <1>8, <1>10, <2>2 DEF Fits
  <2>4. QED
    BY <1>1, <2>2, <2>3, TopChanges DEF f
<1>11. QED
  BY <1>9, <1>10
LEMMA PushKeeps ==
  ASSUME SearchInv, NEW t \in Threads, Push(t)
  PROVE  SearchInv'
<1> DEFINE n == depth[t]
           path == PathIn(frames, Bound, t)
           f == Advanced(t)
           arrival == IF Mode = "temporal" THEN packed.timestamps[Top(t).stamp] ELSE Junk
           h == FrameAt(NextVertex(t), arrival)
           middle == [frames EXCEPT ![t * Bound + n - 1] = f]
           pathed == [path EXCEPT ![n] = f]
<1>1. /\ pc[t] = "search" /\ HasNext(t) /\ ~Pruned(t)
      /\ UNCHANGED <<request, host, packed, work, pc>>
      /\ frames' = [frames EXCEPT ![Slot(t, n)] = f, ![Slot(t, n + 1)] = h]
      /\ depth' = [depth EXCEPT ![t] = @ + 1]
  BY DEF Push, Frame
<1>2. /\ Launched /\ work # << >> /\ Bound \in Nat \ {0}
      /\ IsView(request.view) /\ PackedFrom(packed, request.view)
      /\ t \in 0..(Len(work) - 1)
      /\ PathFits(packed, Mode, Bound, Item(t), path, n)
      /\ path \in [1..Bound -> Fields]
      /\ n \in 1..Bound /\ Top(t) = path[n]
      /\ \A d \in 1..Bound : Slot(t, d) = t * Bound + d - 1 /\ frames[Slot(t, d)] = path[d]
  BY <1>1, ReadsPath
<1>3. Len(work) \in Nat /\ frames \in [0..(Len(work) * Bound - 1) -> Fields]
      /\ pc \in [Threads -> Places] /\ depth \in [Threads -> Int]
  BY <1>2 DEF Launched
<1>4. /\ n < Bound /\ n + 1 \in 1..Bound
      /\ \A d \in 1..n : path[d].vertex # NextVertex(t)
  <2>1. ~(n >= Bound) /\ \A d \in 1..n : frames[Slot(t, d)].vertex # NextVertex(t)
    BY <1>1 DEF Pruned, PathContains, VertexAt
  <2>2. n < Bound /\ n + 1 \in 1..Bound /\ \A d \in 1..n : d \in 1..Bound
    BY <1>2, <2>1
  <2> HIDE DEF path
  <2>3. QED
    BY <1>2, <2>1, <2>2
<1>5. /\ f \in Fields /\ f.vertex = Top(t).vertex /\ f.arrival = Top(t).arrival
      /\ Fits(packed, Mode = "temporal", f)
      /\ NextVertex(t) \in V
      /\ Mode = "temporal" => packed.timestamps[Top(t).stamp] \in 0..TimeMax
      /\ \A g : /\ g.vertex = NextVertex(t)
                /\ Mode = "temporal" => g.arrival = packed.timestamps[Top(t).stamp]
                => Joins(packed, Mode = "temporal", f, g)
  BY <1>1, AdvancedFits
<1>6. /\ h \in Fields /\ h.vertex = NextVertex(t) /\ h.arrival = arrival
      /\ Fits(packed, Mode = "temporal", h)
  <2>1. arrival \in Int /\ (Mode = "temporal" => arrival \in 0..TimeMax)
    BY <1>5, KernelAssumption
  <2> HIDE DEF arrival
  <2>2. FrameOpens(Mode, NextVertex(t), arrival)
    BY <1>2, <1>5, <2>1, FrameStarts
  <2>3. QED
    BY <2>2 DEF FrameOpens
<1>7. Joins(packed, Mode = "temporal", f, h)
  BY <1>5, <1>6
<1> HIDE DEF f, h, arrival, path
<1>8. /\ middle \in [0..(Len(work) * Bound - 1) -> Fields]
      /\ PathIn(middle, Bound, t) = pathed
      /\ \A u \in 0..(Len(work) - 1) : u # t => PathIn(middle, Bound, u) = PathIn(frames, Bound, u)
  <2>1. Written(Len(work), Bound, frames, middle, t, n, f)
    BY <1>2, <1>3, <1>5, WriteFrame
  <2>2. QED
    BY <2>1 DEF Written, path
<1>9. PathFits(packed, Mode, Bound, Item(t), pathed, n)
  <2>1. Bound \in Nat
    BY <1>2
  <2>2. QED
    BY <1>2, <1>5, <2>1, PathAdvances
<1>10. /\ pathed \in [1..Bound -> Fields] /\ pathed[n] = f
       /\ \A d \in 1..n : pathed[d].vertex = path[d].vertex
  BY <1>2, <1>5
<1>11. frames' = [middle EXCEPT ![t * Bound + (n + 1) - 1] = h]
  <2>1. Slot(t, n) = t * Bound + n - 1 /\ Slot(t, n + 1) = t * Bound + (n + 1) - 1
    BY <1>2, <1>4
  <2> DEFINE i == t * Bound + n - 1
             j == t * Bound + (n + 1) - 1
  <2>2. frames' = [frames EXCEPT ![i] = f, ![j] = h]
    BY <1>1, <2>1
  <2> HIDE DEF i, j
  <2>3. frames' = [[frames EXCEPT ![i] = f] EXCEPT ![j] = h]
    BY <2>2
  <2>4. QED
    BY <2>3 DEF i, j
<1> HIDE DEF middle, pathed
<1>12. /\ frames' \in [0..(Len(work) * Bound - 1) -> Fields]
       /\ PathIn(frames', Bound, t) = [pathed EXCEPT ![n + 1] = h]
       /\ \A u \in 0..(Len(work) - 1) : u # t => PathIn(frames', Bound, u) = PathIn(middle, Bound, u)
  <2>1. Written(Len(work), Bound, middle, frames', t, n + 1, h)
    BY <1>2, <1>3, <1>4, <1>6, <1>8, <1>11, WriteFrame
  <2>2. QED
    BY <1>8, <2>1 DEF Written
<1>13. PathFits(packed, Mode, Bound, Item(t), [pathed EXCEPT ![n + 1] = h], n + 1)
  <2>1. Bound \in Nat
    BY <1>2
  <2>2. \A d \in 1..n : pathed[d].vertex # h.vertex
    BY <1>4, <1>6, <1>10
  <2>3. QED
    BY <1>4, <1>6, <1>7, <1>9, <1>10, <2>1, <2>2, PathGrows
<1>14. HasWork(t) /\ \A u \in Threads : HasWork(u) => u \in 0..(Len(work) - 1)
  <2>1. Threads \subseteq Nat
    BY DEF Threads
  <2>2. QED
    BY <1>2, <1>3, <2>1 DEF HasWork
<1>15. /\ depth' \in [Threads -> Int] /\ depth'[t] = n + 1
       /\ \A u \in Threads \ {t} : depth'[u] = depth[u]
  BY <1>1, <1>3
<1>16. \A u \in Threads \ {t} : HasWork(u) => PathIn(frames', Bound, u) = PathIn(frames, Bound, u)
  BY <1>8, <1>12, <1>14
<1>17. PathFits(packed, Mode, Bound, Item(t), PathIn(frames', Bound, t), depth'[t])
  BY <1>12, <1>13, <1>15
<1>18. QED
  BY <1>1, <1>3, <1>12, <1>14, <1>15, <1>16, <1>17, StepOfThread

LEMMA PopKeeps ==
  ASSUME SearchInv, NEW t \in Threads, Pop(t)
  PROVE  SearchInv'
<1> DEFINE path == PathIn(frames, Bound, t)
<1>1. /\ pc[t] = "search"
      /\ UNCHANGED <<request, host, packed, work, frames>>
      /\ depth' = [depth EXCEPT ![t] = @ - 1]
      /\ pc' = [pc EXCEPT ![t] = IF depth[t] = Lowest(Mode) THEN "drained" ELSE @]
  BY DEF Pop, Frame, FirstDepth, Lowest
<1>2. /\ Launched /\ Bound \in Nat \ {0} /\ HasWork(t)
      /\ PathFits(packed, Mode, Bound, Item(t), path, depth[t])
  BY <1>1, ReadsPath DEF SearchInv, ThreadFits
<1>3. pc \in [Threads -> Places] /\ depth \in [Threads -> Int]
      /\ frames \in [0..(Len(work) * Bound - 1) -> Fields]
  BY <1>2 DEF Launched
<1>4. /\ pc' \in [Threads -> Places] /\ depth' \in [Threads -> Int]
      /\ \A u \in Threads \ {t} : pc'[u] = pc[u] /\ depth'[u] = depth[u]
      /\ depth'[t] = depth[t] - 1
      /\ pc'[t] = "search" => depth[t] # Lowest(Mode)
  BY <1>1, <1>3 DEF Places
<1>5. pc'[t] = "search" => PathFits(packed, Mode, Bound, Item(t), path, depth'[t])
  <2> HIDE DEF path
  <2>1. QED
    BY <1>2, <1>4, PathShrinks
<1>6. QED
  BY <1>1, <1>2, <1>3, <1>4, <1>5, StepOfThread

LEMMA BeginKeeps ==
  ASSUME SearchInv, NEW t \in Threads, Begin(t)
  PROVE  SearchInv'
<1> DEFINE item == Item(t)
           path == PathIn(frames, Bound, t)
<1>1. /\ HasWork(t) /\ UNCHANGED <<request, host, packed, work>>
      /\ IF Mode = "static" THEN BeginRoot(t) ELSE BeginEvent(t)
      /\ depth' = [depth EXCEPT ![t] = Lowest(Mode)]
      /\ pc' = [pc EXCEPT ![t] = "search"]
  BY DEF Begin, HasSearch, Frame, FirstDepth, Lowest
<1>2. work # << >> /\ Launched
  BY NoThreads DEF SearchInv
<1>3. Len(work) \in Nat /\ frames \in [0..(Len(work) * Bound - 1) -> Fields]
      /\ pc \in [Threads -> Places] /\ depth \in [Threads -> Int]
  BY <1>2 DEF Launched
<1>4. IsView(request.view) /\ Mode \in Modes /\ Bound \in Nat \ {0} /\ Bound >= 2
  BY <1>2, RequestView DEF SearchInv, Launched
<1>5. PackedFrom(packed, request.view)
  BY <1>2, <1>4, PackFacts DEF Launched
<1>6. \A u \in Threads : HasWork(u) => u \in 0..(Len(work) - 1) /\ u + 1 \in 1..Len(work)
  <2>1. Threads \subseteq Nat
    BY DEF Threads
  <2>2. QED
    BY <1>3, <2>1 DEF HasWork
<1>7. IsItem(Mode, item)
  BY <1>1, <1>2, <1>6 DEF Launched, Item
<1>8. /\ pc' \in [Threads -> Places] /\ depth' \in [Threads -> Int]
      /\ \A u \in Threads \ {t} : pc'[u] = pc[u] /\ depth'[u] = depth[u]
      /\ depth'[t] = Lowest(Mode) /\ Lowest(Mode) \in {1, 2}
  BY <1>1, <1>3 DEF Places, Lowest
<1>9. \A d \in 1..Bound : Slot(t, d) = t * Bound + d - 1
  BY DEF Slot, Base
<1>10. t \in 0..(Len(work) - 1)
  BY <1>1, <1>6
<1>11. Junk \in Int
  BY KernelAssumption
<1> HIDE DEF item
<1>12. CASE Mode = "static"
  <2> DEFINE f == FrameAt(item.root, Junk)
             q == [path EXCEPT ![1] = f]
  <2>1. Lowest(Mode) = 1
    BY <1>12 DEF Lowest
  <2>2. frames' = [frames EXCEPT ![t * Bound + 1 - 1] = f]
    <3>1. Slot(t, 1) = t * Bound + 1 - 1
      BY <1>4, <1>9
    <3>2. frames' = [frames EXCEPT ![Slot(t, 1)] = f]
      BY <1>1, <1>12 DEF BeginRoot, item
    <3>3. QED
      BY <3>1, <3>2
  <2>3. /\ f \in Fields /\ f.vertex = item.root /\ item.root \in V
        /\ Fits(packed, Mode = "temporal", f)
    <3>1. item.root \in V
      BY <1>7 DEF IsItem
    <3>2. FrameOpens(Mode, item.root, Junk)
      BY <1>4, <1>5, <1>11, <1>12, <3>1, FrameStarts
    <3>3. QED
      BY <3>1, <3>2 DEF FrameOpens
  <2> HIDE DEF f
  <2>4. 1 \in 1..Bound
    BY <1>4
  <2>5. /\ frames' \in [0..(Len(work) * Bound - 1) -> Fields]
        /\ path \in [1..Bound -> Fields]
        /\ PathIn(frames', Bound, t) = q
        /\ \A u \in 0..(Len(work) - 1) : u # t => PathIn(frames', Bound, u) = PathIn(frames, Bound, u)
    <3>1. Written(Len(work), Bound, frames, frames', t, 1, f)
      BY <1>3, <1>4, <1>10, <2>2, <2>3, <2>4, WriteFrame
    <3>2. QED
      BY <3>1 DEF Written
  <2>6. q[1] = f
    BY <2>4, <2>5
  <2>7. PathFits(packed, Mode, Bound, item, q, 1)
    <3> HIDE DEF q
    <3>1. \A d \in 1..1 : d = 1
      OBVIOUS
    <3>2. \A d \in 1..(1 - 1) : FALSE
      OBVIOUS
    <3>3. QED
      BY <1>4, <1>12, <2>1, <2>3, <2>6, <3>1, <3>2 DEF PathFits
  <2>8. PathFits(packed, Mode, Bound, Item(t), PathIn(frames', Bound, t), depth'[t])
    BY <1>8, <2>1, <2>5, <2>7 DEF item
  <2>9. \A u \in Threads \ {t} : HasWork(u) => PathIn(frames', Bound, u) = PathIn(frames, Bound, u)
    BY <1>6, <2>5
  <2>10. QED
    BY <1>1, <1>8, <2>5, <2>8, <2>9, StepOfThread
<1>13. CASE Mode # "static"
  <2> DEFINE e == [JunkFrame EXCEPT !.vertex = item.root, !.arrival = item.start]
             f == FrameAt(item.first, item.start)
             middle == [frames EXCEPT ![t * Bound + 1 - 1] = e]
             r == [path EXCEPT ![1] = e]
             q == [r EXCEPT ![2] = f]
  <2>1. Lowest(Mode) = 2
    BY <1>13 DEF Lowest
  <2>2. /\ item.root \in V /\ item.first \in V /\ item.first # item.root
        /\ item.start \in 0..TimeMax /\ item.start \in Int /\ item.root \in Int
    BY <1>4, <1>7, <1>13, ViewShape DEF IsItem
  <2>3. e \in Fields /\ e.vertex = item.root
    <3>1. JunkFrame \in Fields
      BY <1>11 DEF JunkFrame, Fields
    <3>2. QED
      BY <2>2, <3>1 DEF Fields
  <2>4. f \in Fields /\ f.vertex = item.first /\ Fits(packed, Mode = "temporal", f)
    <3>1. FrameOpens(Mode, item.first, item.start)
      BY <1>4, <1>5, <2>2, FrameStarts
    <3>2. QED
      BY <3>1 DEF FrameOpens
  <2>5. frames' = [middle EXCEPT ![t * Bound + 2 - 1] = f]
    <3>1. Slot(t, 1) = t * Bound + 1 - 1 /\ Slot(t, 2) = t * Bound + 2 - 1
      BY <1>4, <1>9
    <3>2. frames' = [frames EXCEPT ![Slot(t, 1)] = e, ![Slot(t, 2)] = f]
      BY <1>1, <1>13 DEF BeginEvent, item
    <3> DEFINE i == t * Bound + 1 - 1
               j == t * Bound + 2 - 1
    <3>3. frames' = [frames EXCEPT ![i] = e, ![j] = f]
      BY <3>1, <3>2
    <3> HIDE DEF i, j, e, f
    <3>4. frames' = [[frames EXCEPT ![i] = e] EXCEPT ![j] = f]
      BY <3>3
    <3>5. QED
      BY <3>4 DEF i, j
  <2> HIDE DEF e, f
  <2>6. 1 \in 1..Bound /\ 2 \in 1..Bound
    BY <1>4
  <2>7. /\ middle \in [0..(Len(work) * Bound - 1) -> Fields]
        /\ path \in [1..Bound -> Fields]
        /\ PathIn(middle, Bound, t) = r
        /\ \A u \in 0..(Len(work) - 1) : u # t => PathIn(middle, Bound, u) = PathIn(frames, Bound, u)
    <3>1. Written(Len(work), Bound, frames, middle, t, 1, e)
      BY <1>3, <1>4, <1>10, <2>3, <2>6, WriteFrame
    <3>2. QED
      BY <3>1 DEF Written
  <2> HIDE DEF middle
  <2>8. /\ frames' \in [0..(Len(work) * Bound - 1) -> Fields]
        /\ PathIn(frames', Bound, t) = q
        /\ \A u \in 0..(Len(work) - 1) : u # t => PathIn(frames', Bound, u) = PathIn(middle, Bound, u)
    <3>1. Written(Len(work), Bound, middle, frames', t, 2, f)
      BY <1>3, <1>4, <1>10, <2>4, <2>5, <2>6, <2>7, WriteFrame
    <3>2. QED
      BY <2>7, <3>1 DEF Written
  <2>9. q[1] = e /\ q[2] = f
    BY <2>6, <2>7
  <2>10. PathFits(packed, Mode, Bound, item, q, 2)
    <3> HIDE DEF q
    <3>1. \A d \in 1..2 : d = 1 \/ d = 2
      OBVIOUS
    <3>2. \A d \in 2..2 : d = 2
      OBVIOUS
    <3>3. \A d \in 2..(2 - 1) : FALSE
      OBVIOUS
    <3>4. 2 \in 2..Bound
      BY <1>4
    <3>5. /\ q[1].vertex = item.root /\ q[2].vertex = item.first
          /\ \A d \in 1..2 : q[d].vertex \in V
          /\ \A c, d \in 1..2 : c # d => q[c].vertex # q[d].vertex
      BY <2>2, <2>3, <2>4, <2>9, <3>1
    <3>6. \A d \in 2..2 : Fits(packed, Mode = "temporal", q[d])
      BY <2>4, <2>9, <3>2
    <3>7. QED
      BY <2>1, <3>3, <3>4, <3>5, <3>6 DEF PathFits
  <2>11. PathFits(packed, Mode, Bound, Item(t), PathIn(frames', Bound, t), depth'[t])
    BY <1>8, <2>1, <2>8, <2>10 DEF item
  <2>12. \A u \in Threads \ {t} : HasWork(u) => PathIn(frames', Bound, u) = PathIn(frames, Bound, u)
    BY <1>6, <2>7, <2>8
  <2>13. QED
    BY <1>1, <1>8, <2>8, <2>11, <2>12, StepOfThread
<1>14. QED
  BY <1>12, <1>13

\* The steps of a thread outside its search.
LEMMA ElsewhereKeeps ==
  ASSUME SearchInv, NEW t \in Threads, Clear(t) \/ Flush(t) \/ BeginIdle(t)
  PROVE  SearchInv'
<1>1. /\ UNCHANGED <<request, host, packed, work, frames, depth>>
      /\ \E place \in Places \ {"search"} : pc' = [pc EXCEPT ![t] = place]
  BY DEF Clear, Flush, BeginIdle, Frame, Places
<1>2. Launched
  BY NoThreads DEF SearchInv
<1>3. pc \in [Threads -> Places] /\ depth \in [Threads -> Int]
      /\ frames \in [0..(Len(work) * Bound - 1) -> Fields]
  BY <1>2 DEF Launched
<1>4. /\ pc' \in [Threads -> Places] /\ pc'[t] # "search"
      /\ \A u \in Threads \ {t} : pc'[u] = pc[u]
  BY <1>1, <1>3
<1>5. QED
  BY <1>1, <1>3, <1>4, StepOfThread

LEMMA BarrierKeeps ==
  ASSUME SearchInv, NEW b \in Blocks, Sync(b)
  PROVE  SearchInv'
<1>1. PICK from \in Places, to \in Places \ {"search"} :
        /\ pc' = [t \in Threads |-> IF t \in {u \in Threads : BlockOf(u) = b} THEN to ELSE pc[t]]
        /\ UNCHANGED <<request, host, packed, work, frames, depth>>
  BY DEF Sync, Barrier, Frame, Places
<1>2. work # << >> /\ Launched
  BY NoThreads DEF SearchInv
<1>3. Threads' = Threads /\ Mode' = Mode /\ Bound' = Bound
  BY <1>1 DEF Threads, Mode, Bound
<1>4. pc \in [Threads -> Places]
  BY <1>2 DEF Launched
<1>5. /\ pc' \in [Threads -> Places]
      /\ \A t \in Threads : pc'[t] = "search" => pc[t] = "search"
  BY <1>1, <1>4
<1>6. Launched'
  BY <1>1, <1>2, <1>3, <1>5 DEF Launched
<1>7. ASSUME NEW t \in Threads, pc'[t] = "search"
      PROVE  ThreadFits(t)'
  <2>1. ThreadFits(t)
    BY <1>2, <1>5, <1>7 DEF SearchInv
  <2>2. HasWork(t)' = HasWork(t) /\ Item(t)' = Item(t)
    BY <1>1 DEF HasWork, Item
  <2>3. QED
    BY <1>1, <1>3, <2>1, <2>2 DEF ThreadFits
<1>8. QED
  BY <1>1, <1>3, <1>6, <1>7 DEF SearchInv, RequestInv

LEMMA ReturnKeeps ==
  ASSUME SearchInv, NEW histogram, Return(histogram)
  PROVE  SearchInv'
<1>1. host' = "done" /\ UNCHANGED <<request, packed, work, pc, depth, frames>>
  BY DEF Return, device
<1>2. Threads' = Threads /\ Mode' = Mode /\ Bound' = Bound
  BY <1>1 DEF Threads, Mode, Bound
<1>3. Launched => Launched'
  BY <1>1, <1>2 DEF Launched
<1>4. \A t \in Threads : ThreadFits(t) => ThreadFits(t)'
  BY <1>1, <1>2 DEF ThreadFits, HasWork, Item
<1>5. QED
  BY <1>1, <1>2, <1>3, <1>4 DEF SearchInv, RequestInv

LEMMA LaunchKeeps ==
  ASSUME SearchInv, Launch
  PROVE  SearchInv'
<1>1. /\ host' = "running" /\ packed' = Pack(request.view) /\ work' = Work
      /\ Bound' = Bound /\ Mode' = Mode /\ request' = request /\ ~(Bound < 2)
      /\ pc' = [t \in 0..(GridBlocks(Len(Work)) * BlockSize - 1) |-> "clear"]
      /\ depth' = [t \in 0..(GridBlocks(Len(Work)) * BlockSize - 1) |-> 0]
      /\ frames' = [slot \in 0..(Len(Work) * Bound - 1) |-> JunkFrame]
  BY DEF Launch, Invalid, Bound, Mode
<1>2. Threads' = 0..(GridBlocks(Len(Work)) * BlockSize - 1)
  BY <1>1 DEF Threads
<1>3. Bound >= 2
  BY <1>1, RequestView DEF SearchInv
<1>4. Len(Work) \in Nat /\ \A i \in 1..Len(Work) : IsItem(Mode, Work[i])
  BY WorkIsItems DEF SearchInv
<1>5. JunkFrame \in Fields
  BY KernelAssumption DEF JunkFrame, Fields
<1>6. pc' \in [Threads' -> Places] /\ depth' \in [Threads' -> Int]
      /\ \A t \in Threads' : pc'[t] # "search"
  <2> DEFINE S == 0..(GridBlocks(Len(Work)) * BlockSize - 1)
  <2>1. pc' = [t \in S |-> "clear"] /\ depth' = [t \in S |-> 0] /\ Threads' = S
    BY <1>1, <1>2
  <2> HIDE DEF S
  <2>2. QED
    BY <2>1 DEF Places
<1>7. frames' \in [0..(Len(work') * Bound' - 1) -> Fields]
  BY <1>1, <1>5
<1>8. Launched'
  BY <1>1, <1>3, <1>4, <1>6, <1>7 DEF Launched
<1>9. QED
  BY <1>1, <1>6, <1>8 DEF SearchInv, RequestInv

\* The paths of all threads stay paths of the packed graph.
LEMMA SearchInvariant == Spec => []SearchInv
<1>1. Init => SearchInv
  BY DEF Init, SearchInv, RequestInv
<1>2. SearchInv /\ [Next]_vars => SearchInv'
  <2> SUFFICES ASSUME SearchInv, [Next]_vars
               PROVE  SearchInv'
    OBVIOUS
  <2>1. CASE Host
    <3>1. (\E histogram : Return(histogram)) \/ Launch
      BY <2>1 DEF Host, CountSimpleCycles, CountTimeWindowCycles, CountTemporalCycles,
                  HostSteps, Refuse, ReturnEmpty, Collect
    <3>2. QED
      BY <3>1, ReturnKeeps, LaunchKeeps
  <2>2. ASSUME NEW t \in Threads, Thread(t)
        PROVE  SearchInv'
    <3>1. \/ Clear(t) \/ Flush(t) \/ BeginIdle(t)
          \/ Begin(t) \/ CountCycle(t) \/ Skip(t) \/ Push(t) \/ Activate(t) \/ Pop(t)
      BY <2>2 DEF Thread, CountRoots, CountTimeWindowStartEvents, CountTemporalStartEvents, Search
    <3>2. QED
      BY <3>1, ElsewhereKeeps, BeginKeeps, AdvanceKeeps, PushKeeps, ActivateKeeps, PopKeeps
  <2>3. ASSUME NEW b \in Blocks, Sync(b)
        PROVE  SearchInv'
    BY <2>3, BarrierKeeps
  <2>4. CASE UNCHANGED vars
    <3>1. UNCHANGED <<request, host, packed, work, pc, depth, frames>>
      BY <2>4 DEF vars, device
    <3>2. Threads' = Threads /\ Mode' = Mode /\ Bound' = Bound
      BY <3>1 DEF Threads, Mode, Bound
    <3>3. Launched => Launched'
      BY <3>1, <3>2 DEF Launched
    <3>4. \A t \in Threads : ThreadFits(t) => ThreadFits(t)'
      BY <3>1, <3>2 DEF ThreadFits, HasWork, Item
    <3>5. QED
      BY <3>1, <3>2, <3>3, <3>4 DEF SearchInv, RequestInv
  <2>5. QED
    BY <2>1, <2>2, <2>3, <2>4 DEF Next, Returned
<1>3. QED
  BY <1>1, <1>2, PTL DEF Spec

\* However many threads search, whatever the bound their slices depend on: the frames
\* of each hold a simple path of its item by edges of the packed graph, with
\* increasing arrivals in the temporal search (the search loops of
\* cuda_johnson_kernel.cu).
THEOREM PathsIntactAlways == Spec => []PathsIntact
<1>1. SearchInv => PathsIntact
  <2> SUFFICES ASSUME SearchInv, NEW t \in Threads, pc[t] = "search"
               PROVE  /\ VertexAt(t, 1) = Item(t).root
                      /\ Mode # "static" => VertexAt(t, 2) = Item(t).first
                      /\ \A c, d \in 1..depth[t] : c # d => VertexAt(t, c) # VertexAt(t, d)
                      /\ \A d \in FirstDepth..(depth[t] - 1) : LeadsTo(t, d, VertexAt(t, d + 1))
                      /\ Mode = "temporal" => \A d \in 3..depth[t] : Arrives(t, d)
    BY DEF PathsIntact, Searching
  <2> DEFINE path == PathIn(frames, Bound, t)
             n == depth[t]
  <2>1. /\ PathFits(packed, Mode, Bound, Item(t), path, n) /\ n \in 1..Bound
        /\ \A d \in 1..Bound : frames[Slot(t, d)] = path[d]
        /\ Bound \in Nat \ {0}
    BY ReadsPath
  <2> HIDE DEF path
  <2>2. \A d \in 1..Bound : VertexAt(t, d) = path[d].vertex
    BY <2>1 DEF VertexAt
  <2>3. FirstDepth = Lowest(Mode) /\ Lowest(Mode) \in {1, 2} /\ n \in Lowest(Mode)..Bound
        /\ (Mode # "static" => Lowest(Mode) = 2)
    BY <2>1 DEF FirstDepth, Lowest, PathFits
  <2>4. VertexAt(t, 1) = Item(t).root /\ (Mode # "static" => VertexAt(t, 2) = Item(t).first)
    <3>1. 1 \in 1..Bound /\ (Mode # "static" => 2 \in 1..Bound)
      BY <2>1, <2>3
    <3>2. QED
      BY <2>1, <2>2, <3>1 DEF PathFits
  <2>5. \A c, d \in 1..n : c # d => VertexAt(t, c) # VertexAt(t, d)
    <3>1. \A d \in 1..n : d \in 1..Bound
      BY <2>1
    <3>2. QED
      BY <2>1, <2>2, <3>1 DEF PathFits
  <2>6. ASSUME NEW d \in Lowest(Mode)..(n - 1)
        PROVE  /\ d \in 1..Bound /\ d + 1 \in 1..Bound
               /\ Joins(packed, Mode = "temporal", path[d], path[d + 1])
    <3>1. d \in 1..Bound /\ d + 1 \in 1..Bound
      BY <2>1, <2>3
    <3>2. QED
      BY <2>1, <3>1 DEF PathFits
  <2>7. ASSUME NEW d \in Lowest(Mode)..(n - 1)
        PROVE  LeadsTo(t, d, VertexAt(t, d + 1))
    BY <2>1, <2>2, <2>6 DEF LeadsTo, Joins
  <2>8. ASSUME Mode = "temporal", NEW d \in 3..n
        PROVE  Arrives(t, d)
    <3>1. d - 1 \in Lowest(Mode)..(n - 1) /\ (d - 1) + 1 = d
      BY <2>1, <2>3, <2>8
    <3>2. /\ Joins(packed, TRUE, path[d - 1], path[d])
          /\ frames[Slot(t, d - 1)] = path[d - 1] /\ frames[Slot(t, d)] = path[d]
      <4>1. (Mode = "temporal") = TRUE
        BY <2>8
      <4>2. QED
        BY <2>1, <2>6, <3>1, <4>1
    <3>3. QED
      BY <3>2 DEF Arrives, Joins
  <2>9. QED
    BY <2>3, <2>4, <2>5, <2>7, <2>8
<1>2. QED
  BY <1>1, SearchInvariant, PTL
=============================================================================
