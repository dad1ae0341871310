----------------------------- MODULE Extraction -----------------------------
(***************************************************************************)
(* The extraction stage: which extractors a source is tried with           *)
(* (extraction/router.py), and the walk over the inventory that ends in a  *)
(* sealed snapshot (extraction/stage.py, publish.py; normalize, dedupe and *)
(* chunk publish the same way, lake/publish.py).  A text is known by the   *)
(* content it came from.  The stage holds the lock of its root; it may     *)
(* fail or crash anywhere and be run again, into a new snapshot.           *)
(***************************************************************************)
EXTENDS Calls, Naturals, Sequences, FiniteSets

CONSTANTS Body,             \* contents of inventory items
          MaxItems,         \* bound: items of the inventory
          MaxSnapshots,     \* bound: attempts
          BatchRows         \* batch_rows of the policy

-----------------------------------------------------------------------------
(* The lanes.  What a lane makes of the source is "text", "sparse" (less    *)
(* text than a page has that is not scanned), "blank" or "fails", which is *)
(* also what _checked makes of output over a limit.                        *)

Lanes == {"plain", "baseline", "layout", "ocr"}
Makes == {"text", "sparse", "blank", "fails"}
Kinds == {"text", "image", "sheet", "pdf", "other"}
HasText(makes) == makes \in {"text", "sparse"}

\* The lanes in order, and what is wanted of each but the last.
FirstOf(made, lanes, wanted(_)) ==
  LET good == {i \in 1..Len(lanes) : wanted(made[lanes[i]])}
  IN  IF good = {} THEN "none" ELSE lanes[CHOOSE i \in good : \A j \in good : i <= j]
Runs(makes) == makes # "fails"

\* _extract_pdf and _extract_layout prefer layout output that has text.
LayoutUsed(made) == HasText(made["layout"])

\* _extract_pdf: of a PDF with so little text that it looks scanned, what OCR
\* makes replaces the text even if it is blank.
PdfLane(made) ==
  IF LayoutUsed(made) THEN "layout"
  ELSE IF made["baseline"] = "fails" THEN FirstOf(made, <<"ocr">>, Runs)
  ELSE IF made["baseline"] # "text" THEN FirstOf(made, <<"ocr", "baseline">>, Runs)
  ELSE "baseline"

\* TieredExtractor.extract: the lane whose output is taken.
Lane(kind, made) ==
  CASE kind = "text" -> FirstOf(made, <<"plain", "baseline">>, Runs)
    [] kind = "image" -> FirstOf(made, <<"ocr">>, Runs)
    [] kind = "sheet" -> IF LayoutUsed(made) THEN "layout" ELSE FirstOf(made, <<"baseline">>, Runs)
    [] kind = "pdf" -> PdfLane(made)
    [] OTHER -> FirstOf(made, <<"baseline">>, Runs)

AskRoute(kind, made) == Ask([op |-> "route", kind |-> kind, made |-> made, lane |-> Lane(kind, made)])

-----------------------------------------------------------------------------
(* The walk and the snapshot.                                              *)

VARIABLE extract

SnapshotRoots == <<"documents", "spans", "quarantine", "manifest">>
NoSnapshot == [roots |-> {}, documents |-> {}, occurrences |-> {}, quarantined |-> {}]
NoExtract == [pc |-> "idle", items |-> <<>>, next |-> 1, snap |-> 0, seen |-> {}, queued |-> {},
              moved |-> 0, disk |-> [n \in 1..MaxSnapshots |-> NoSnapshot]]
ExtractInit == extract = NoExtract

Snap == extract.disk[extract.snap]

AskExtract(items) ==
  call = Ready /\ call' = [op |-> "extract"]
  /\ extract' = [NoExtract EXCEPT !.pc = "stopped", !.items = items]

Extracts(pc) == call.op = "extract" /\ extract.pc = pc /\ UNCHANGED call

\* A new publisher with its own staging directory.
BeginExtract ==
  /\ Extracts("stopped") /\ extract.snap < MaxSnapshots
  /\ extract' = [extract EXCEPT !.pc = "walk", !.next = 1, !.snap = @ + 1, !.seen = {},
                                !.queued = {}, !.moved = 0]

\* abort_publication: staging and the roots that were moved are removed.  A
\* crash leaves them, but the manifest stays in the staging directory.
AbortExtract == [extract EXCEPT !.pc = "stopped", !.disk[extract.snap] = NoSnapshot]

Item == extract.items[extract.next]
Quarantined == [extract EXCEPT !.next = @ + 1, !.disk[extract.snap].quarantined = @ \cup {extract.next}]
Occurs == [extract.disk[extract.snap] EXCEPT !.occurrences = @ \cup {[item |-> extract.next, of |-> Item.content]}]

\* add_document: its occurrence, and the batch if it is full.
AddDocument ==
  LET queued == extract.queued \cup {Item.content}
      full == Cardinality(queued) >= BatchRows
  IN  [extract EXCEPT !.next = @ + 1, !.queued = IF full THEN {} ELSE queued,
                      !.disk[extract.snap] =
                        [Occurs EXCEPT !.documents = IF full THEN @ \cup queued ELSE @]]

\* seen is set by success alone.
Extracted(done) == IF Cardinality(done.disk[done.snap].occurrences) > Cardinality(Snap.occurrences)
              THEN [done EXCEPT !.seen = @ \cup {Item.content}] ELSE done

\* _extract_item.  A source that is gone, a batch the contract refuses or a
\* full disk end the stage; every other failure is the item's own.
ExtractItem ==
  /\ Extracts("walk") /\ extract.next <= Len(extract.items)
  /\ \/ ~Item.ready /\ extract' = Quarantined
     \/ /\ Item.ready /\ Item.content \in extract.seen
        /\ extract' = [extract EXCEPT !.next = @ + 1, !.disk[extract.snap] = Occurs]
     \/ /\ Item.ready /\ Item.content \notin extract.seen
        /\ \/ extract' = Extracted(AddDocument)
           \/ extract' = Extracted(Quarantined)
           \/ extract' = AbortExtract

\* finish: the last batch, then the roots.
Finish == [extract EXCEPT !.pc = "move", !.queued = {}, !.disk[extract.snap].documents = @ \cup extract.queued]

EndItems ==
  /\ Extracts("walk") /\ extract.next > Len(extract.items)
  /\ extract' = Finish \/ extract' = AbortExtract

\* The manifest is the staging directory: it goes last.
RootAt(i) == SnapshotRoots[i]

MoveRoot ==
  /\ Extracts("move") /\ extract.moved < Len(SnapshotRoots)
  /\ LET moved == [extract EXCEPT !.moved = @ + 1, !.disk[extract.snap].roots = @ \cup {RootAt(extract.moved + 1)}]
     IN  \/ extract' = IF moved.moved = Len(SnapshotRoots) THEN [moved EXCEPT !.pc = "stopped"] ELSE moved
         \/ extract' = AbortExtract

CrashExtract ==
  /\ call.op = "extract" /\ extract.pc # "stopped" /\ UNCHANGED call
  /\ extract' = [extract EXCEPT !.pc = "stopped"]

EndExtract == call.op = "extract" /\ extract.pc = "stopped" /\ call' = Ready /\ extract' = NoExtract

ExtractNext ==
  \/ \E n \in 1..MaxItems : \E items \in [1..n -> [content : Body, ready : BOOLEAN]] : AskExtract(items)
  \/ BeginExtract \/ ExtractItem \/ EndItems \/ MoveRoot \/ CrashExtract \/ EndExtract

-----------------------------------------------------------------------------
(* Properties.                                                             *)

\* A source whose lanes found text is not published blank or quarantined: the
\* answer has text whenever a lane that its kind allows made some.  (Of a PDF
\* that looks scanned a blank OCR result is taken over sparse text.)
TextIsKept ==
  call.op = "route" =>
    LET tried == CASE call.kind = "text" -> {"plain"} \cup (IF call.made["plain"] = "fails" THEN {"baseline"} ELSE {})
                   [] call.kind = "image" -> {"ocr"}
                   [] call.kind = "sheet" -> {"baseline", "layout"}
                   [] call.kind = "pdf" -> {"baseline", "layout"} \cup (IF call.made["baseline"] = "text" THEN {} ELSE {"ocr"})
                   [] OTHER -> {"baseline"}
        overruled == call.kind = "pdf" /\ call.made["baseline"] = "sparse" /\ call.made["ocr"] = "blank"
    IN  (\E lane \in tried : HasText(call.made[lane])) /\ ~overruled =>
          call.lane # "none" /\ HasText(call.made[call.lane])

Sealed(n) == "manifest" \in extract.disk[n].roots

\* Whoever finds a manifest finds all the roots it names, after any failure.
SealedIsWhole ==
  \A n \in 1..MaxSnapshots : Sealed(n) => extract.disk[n].roots = {SnapshotRoots[i] : i \in 1..Len(SnapshotRoots)}

\* "Extract unique content once and preserve every occurrence and failure": in
\* a sealed snapshot every inventory item is in exactly one list, and the
\* document that an occurrence points to is written there.
EveryItemAccounted ==
  \A n \in {m \in 1..MaxSnapshots : Sealed(m)} :
    LET snapshot == extract.disk[n]
    IN  /\ \A i \in 1..Len(extract.items) :
             (i \in snapshot.quarantined) # (\E o \in snapshot.occurrences : o.item = i)
        /\ \A o \in snapshot.occurrences : o.of = extract.items[o.item].content /\ o.of \in snapshot.documents
=============================================================================
