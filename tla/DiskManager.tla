----------------------------- MODULE DiskManager -----------------------------
(***************************************************************************)
(* The database file: class DiskManager of 15445/src/disk/disk_manager.cpp.*)
(* The file is a sequence of pages; a page at or past its end is Absent.   *)
(* A page's bytes are abstracted to a content out of a small set, with     *)
(* Zero for a page of zero bytes.                                          *)
(***************************************************************************)
EXTENDS Integers

CONSTANTS MaxPages,  \* bound: page ids are below it
          Contents,  \* what a page can hold
          Zero,      \* the content of a zeroed page
          Absent     \* marks a page past the end of the file

ASSUME MaxPagesAssumption == MaxPages \in Nat
ASSUME ContentsAssumption == Zero \in Contents /\ Absent \notin Contents

VARIABLES db_file,      \* the pages of the file
          next_page_id  \* next_page_id_, the next id to hand out

PageIds == 0 .. MaxPages - 1

INVALID_PAGE_ID == -1

\* A new, empty file.
DiskInit == /\ db_file = [p \in PageIds |-> Absent]
            /\ next_page_id = 0

\* The file after WritePage(page_id, d).  Writing past the end leaves a hole,
\* which reads as zeros.
WritePage(file, page_id, d) ==
  [p \in PageIds |-> IF p = page_id THEN d
                     ELSE IF p < page_id /\ file[p] = Absent THEN Zero
                     ELSE file[p]]

\* The buffer buf after ReadPage(page_id, buf): a read at or past the end of
\* the file logs an error and leaves the buffer as it was.
ReadPage(file, page_id, buf) ==
  IF file[page_id] = Absent THEN buf ELSE file[page_id]

\* AllocatePage returns next_page_id and counts on.  The bound caps the ids.
AllocatePage == /\ next_page_id < MaxPages
                /\ next_page_id' = next_page_id + 1

\* DeallocatePage does nothing.
DeallocatePage(page_id) == UNCHANGED next_page_id
=============================================================================
