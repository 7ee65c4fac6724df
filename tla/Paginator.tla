----------------------------- MODULE Paginator -----------------------------
(***************************************************************************)
(* s3.NewListObjectsV2Paginator over a bucket: the key order of S3         *)
(* (lexicographic, given as KeyOrder) and one ListObjectsV2 call.          *)
(***************************************************************************)
EXTENDS Naturals, Sequences

CONSTANTS
  KeyOrder,  \* every key of the bucket, in S3's listing order
  PageSize,  \* MaxKeys of one page
  NoObject   \* value of an absent key

VARIABLE bucket

Present(k) == bucket[k] # NoObject

Pos(k) == CHOOSE i \in DOMAIN KeyOrder : KeyOrder[i] = k

\* mutant: the next page resumes one key past the last key returned
ListPageSkipOne(prefix, cursor) ==
  LET after    == SubSeq(KeyOrder, cursor + 1, Len(KeyOrder))
      matching == SelectSeq(after, LAMBDA k : k \in prefix /\ Present(k))
      n        == IF Len(matching) < PageSize THEN Len(matching) ELSE PageSize
      page     == SubSeq(matching, 1, n)
  IN [keys      |-> page,
      cursor    |-> IF n = 0 THEN cursor ELSE Pos(page[n]) + 1,
      truncated |-> Len(matching) > PageSize]

(***************************************************************************)
(* One ListObjectsV2 page: the first PageSize present keys of the prefix   *)
(* that sort after the continuation point, and whether more follow         *)
(* (IsTruncated).  The paginator resumes after the last key returned.      *)
(***************************************************************************)
ListPage(prefix, cursor) ==
  LET after    == SubSeq(KeyOrder, cursor + 1, Len(KeyOrder))
      matching == SelectSeq(after, LAMBDA k : k \in prefix /\ Present(k))
      n        == IF Len(matching) < PageSize THEN Len(matching) ELSE PageSize
      page     == SubSeq(matching, 1, n)
  IN [keys      |-> page,
      cursor    |-> IF n = 0 THEN cursor ELSE Pos(page[n]),
      truncated |-> Len(matching) > PageSize]
=============================================================================
