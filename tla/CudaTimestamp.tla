--------------------------- MODULE CudaTimestamp ----------------------------
(***************************************************************************)
(* The timestamp searches of the CUDA kernels: binary searches in a part   *)
(* of one array that holds the timestamps of all edges.  Parts are half    *)
(* open, begin included and end not; positions count from one.             *)
(***************************************************************************)
EXTENDS Integers, Sequences

CONSTANT TimeMax    \* std::numeric_limits<Timestamp>::max()

\* checked_window_end returns false.
Overflows(start, width) == width < 0 \/ start > TimeMax - width

\* The first position whose value is not less than target.
LowerBound(values, begin, end, target) ==
  LET search[range \in (begin..end) \X (begin..end)] ==
        LET b == range[1]
            e == range[2]
            mid == b + (e - b) \div 2
        IN  IF b >= e THEN b
            ELSE IF values[mid] < target THEN search[<<mid + 1, e>>] ELSE search[<<b, mid>>]
  IN  search[<<begin, end>>]

\* Mutant: what is equal to the target is not passed over.
UpperBoundLow(values, begin, end, target) == LowerBound(values, begin, end, target)

\* The first position whose value is greater than target.
UpperBound(values, begin, end, target) ==
  LET search[range \in (begin..end) \X (begin..end)] ==
        LET b == range[1]
            e == range[2]
            mid == b + (e - b) \div 2
        IN  IF b >= e THEN b
            ELSE IF target < values[mid] THEN search[<<b, mid>>] ELSE search[<<mid + 1, e>>]
  IN  search[<<begin, end>>]

NoRange == [begin |-> 0, end |-> 0]
IsEmpty(range) == range.begin >= range.end

\* timestamps_in_window; inclusive is the start policy.
DeviceInWindow(values, begin, end, start, width, inclusive) ==
  IF Overflows(start, width) \/ begin > end THEN NoRange
  ELSE LET first == IF inclusive THEN LowerBound(values, begin, end, start)
                    ELSE UpperBound(values, begin, end, start)
       IN  [begin |-> first, end |-> UpperBound(values, first, end, start + width)]

\* has_timestamp_in_window
DeviceHasTimestamp(values, begin, end, start, width, inclusive) ==
  ~IsEmpty(DeviceInWindow(values, begin, end, start, width, inclusive))

\* timestamps_after
DeviceAfter(values, begin, end, previous, windowEnd) ==
  IF begin > end THEN NoRange
  ELSE LET first == UpperBound(values, begin, end, previous)
       IN  [begin |-> first, end |-> UpperBound(values, first, end, windowEnd)]
=============================================================================
