----------------------------- MODULE RecordStore -----------------------------
(***************************************************************************)
(* Core/Source/SolidSyslogRecordStore.c: what a block's bytes say.         *)
(*                                                                         *)
(* A block is [size, recs]: the bytes the device has of it, and the        *)
(* records written to it.  A record is [id, at, bytes, flag, state]: its   *)
(* offset and length, its sent flag, and whether its header ("DAMAGED") or *)
(* its content ("REJECTED" by the security policy) was damaged.  A record  *)
(* whose end lies beyond the block's size is one that was cut short.       *)
(***************************************************************************)
EXTENDS Integers, FiniteSets

EmptyBlock == [size |-> 0, recs |-> {}]

End(r) == r.at + r.bytes

\* Append: the block's data grows by the bytes of the record that reach it.
AppendRecord(b, id, bytes, reached) ==
  IF reached = 0 THEN b
  ELSE [size |-> b.size + reached,
        recs |-> b.recs \cup {[id |-> id, at |-> b.size, bytes |-> bytes,
                               flag |-> "UNSENT", state |-> "OK"]}]

\* WriteSentFlag at the end of the record that ends at next.
WriteSentFlag(b, next, flag) ==
  [b EXCEPT !.recs = {IF End(r) = next THEN [r EXCEPT !.flag = flag] ELSE r : r \in b.recs}]

\* ReadRecordExtent: the header reads, and the record is whole.
ReadRecordExtent(b, offset, dataSize) ==
  IF offset >= dataSize THEN "END_OF_DATA"
  ELSE IF \E r \in b.recs : r.at = offset /\ r.state # "DAMAGED" /\ End(r) <= dataSize
  THEN "SUCCEEDED" ELSE "CORRUPT"

RecordAt(b, offset) == CHOOSE r \in b.recs : r.at = offset

\* Mutant: a flag a power cut left half-written is taken for a mark.
AnyWriteMarksSent(flag) == flag # "UNSENT"

\* Exact values only: a half-written flag reads as unsent.
FlagMarksSentOrDiscarded(flag) == flag = "SENT"

\* ReadAndValidateRecord: opens says whether the policy reaches a verdict.
ReadAndValidateRecord(b, offset, dataSize, opens) ==
  IF ReadRecordExtent(b, offset, dataSize) # "SUCCEEDED" THEN ReadRecordExtent(b, offset, dataSize)
  ELSE IF FlagMarksSentOrDiscarded(RecordAt(b, offset).flag) THEN "FINISHED_WITH"
  ELSE IF ~opens THEN "COULD_NOT_OPEN"
  ELSE IF RecordAt(b, offset).state = "REJECTED" THEN "REJECTED"
  ELSE "SUCCEEDED"

\* A record the scan for unsent ones goes past.
IsFinishedWith(b, offset, dataSize) ==
  ReadRecordExtent(b, offset, dataSize) = "SUCCEEDED" /\ FlagMarksSentOrDiscarded(RecordAt(b, offset).flag)

\* FindFirstUnsent: where the scan stops, and whether it met damage.
FindFirstUnsent(b, blockSize) ==
  LET walk[cursor \in 0..blockSize] ==
        IF ReadRecordExtent(b, cursor, blockSize) = "CORRUPT" THEN [cursor |-> blockSize, scanned |-> "CORRUPT"]
        ELSE IF IsFinishedWith(b, cursor, blockSize) THEN walk[End(RecordAt(b, cursor))]
        ELSE [cursor |-> cursor, scanned |-> "CLEAN"]
  IN  walk[0]

\* ScanToEnd: whether the block is whole records from the cursor to its end.
ScanToEnd(b, from, blockSize) ==
  LET walk[cursor \in 0..blockSize] ==
        IF ReadRecordExtent(b, cursor, blockSize) = "SUCCEEDED" THEN walk[End(RecordAt(b, cursor))]
        ELSE IF ReadRecordExtent(b, cursor, blockSize) = "CORRUPT" THEN "CORRUPT"
        ELSE "CLEAN"
  IN  walk[from]
=============================================================================
