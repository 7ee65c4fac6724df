------------------------------ MODULE Checksums ------------------------------
(***************************************************************************)
(* The checksum parser readSHASums of spec.md 4.2 (not under src/): the    *)
(* digest of one filename in a SHA256SUMS manifest.  A line is an entry    *)
(* [kind |-> "entry", digest, file] ("<digest>  <file>"), a blank line, or *)
(* a line that cannot be split into digest and filename.  No line for the  *)
(* file is NotFound, a line that cannot be split is a FormatError,         *)
(* trailing blank lines are ignored and line order is not significant.     *)
(***************************************************************************)
EXTENDS Sequences

Entry(digest, file) == [kind |-> "entry", digest |-> digest, file |-> file]
BlankLine           == [kind |-> "blank", digest |-> "", file |-> ""]
GarbledLine         == [kind |-> "garbled", digest |-> "", file |-> ""]

\* the digest found so far, before any line matched
NoDigest == "none"

\* a blank line ends the manifest when only blank lines follow it
OnlyBlank(lines) == \A i \in DOMAIN lines : lines[i].kind = "blank"

\* every line is read; the first line for the file gives the digest
RECURSIVE ScanShasums(_, _, _)
ScanShasums(lines, file, found) ==
  CASE lines = <<>> -> IF found = NoDigest THEN "NotFound" ELSE found
    [] Head(lines).kind = "entry" ->
         ScanShasums(Tail(lines), file,
                     IF found = NoDigest /\ Head(lines).file = file
                       THEN Head(lines).digest ELSE found)
    [] Head(lines).kind = "blank" /\ OnlyBlank(Tail(lines)) ->
         ScanShasums(<<>>, file, found)
    [] OTHER -> "FormatError"

\* readSHASums(r, filename)
ReadSHASums(manifest, file) == ScanShasums(manifest, file, NoDigest)
=============================================================================
