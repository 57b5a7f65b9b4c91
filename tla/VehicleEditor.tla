---------------------------- MODULE VehicleEditor ----------------------------
(***************************************************************************)
(* The dialog in which an administrator writes a car: the rows of its      *)
(* pictures, to be typed, moved, picked from the presets or uploaded, and  *)
(* the save that sends them.                                               *)
(*                                                                         *)
(* The files of one upload are sent one after the other and shown together *)
(* at the end.  The file button is closed during an upload, the drop zone  *)
(* is not: two uploads may overlap, and the rows may change under either.  *)
(* The other fields of the form, which take whatever is typed, and what a  *)
(* picture is said to show are left out.                                   *)
(***************************************************************************)
EXTENDS Requests, Naturals, Sequences, FiniteSets

Rows == INSTANCE SequencesExt

CONSTANT MaxImages    \* pictures a car may have

ASSUME VehicleEditorAssumption == MaxImages \in Nat \ {0}

VARIABLES
  editor,      \* whether the dialog is open
  images,      \* its rows
  uploading,   \* an upload is said to be under way
  busy         \* a save is said to be under way

vehicleEditorVars == <<editor, images, uploading, busy, request>>

\* An address typed may be that of a preset.
Typed == {"BLANK", "TYPED", "PRESET"}
Row == Typed \cup {"UPLOADED"}

\* The rows that are not blank, in their order: the n-th of them stands where
\* there are n of them so far.
FilledPlaces(rows) == {i \in DOMAIN rows : rows[i] # "BLANK"}

NthPlace(places, n) == CHOOSE i \in places : Cardinality(places \cap 1..i) = n

Filled(rows) ==
  [n \in 1..Cardinality(FilledPlaces(rows)) |-> rows[NthPlace(FilledPlaces(rows), n)]]

\* The pictures a car may have been saved with.
Galleries == UNION {[1..n -> Row \ {"BLANK"}] : n \in 0..MaxImages}

VehicleEditorInit ==
  /\ editor = "CLOSED" /\ images = <<"BLANK">>
  /\ uploading = FALSE /\ busy = FALSE
  /\ RequestInit

\* A new car, or one without pictures, starts with an empty row.
OpenEditor(gallery) ==
  /\ editor = "CLOSED" /\ editor' = "OPEN"
  /\ images' = IF gallery = <<>> THEN <<"BLANK">> ELSE gallery
  /\ uploading' = FALSE
  /\ UNCHANGED <<busy, request>>

\* An upload goes on after the dialog it was for is gone.
Unmounted ==
  [h \in Handlers |-> IF request[h].op = "PICTURES"
                      THEN [request[h] EXCEPT !.mounted = FALSE] ELSE request[h]]

Closed(requests) ==
  /\ editor' = "CLOSED" /\ images' = <<"BLANK">> /\ uploading' = FALSE
  /\ request' = requests

\* By the cross, by Escape or beside the dialog.  The cancel button is also
\* closed during an upload.
CloseEditor ==
  /\ editor = "OPEN" /\ ~busy
  /\ Closed(Unmounted)
  /\ UNCHANGED busy
-----------------------------------------------------------------------------
(* The rows, open while a save or an upload is under way.                  *)

SetRows(rows) ==
  /\ editor = "OPEN" /\ images' = rows
  /\ UNCHANGED <<editor, uploading, busy, request>>

UpdateImage(index, typed) ==
  /\ index \in DOMAIN images
  /\ SetRows([images EXCEPT ![index] = typed])

MoveImage(index) ==
  /\ index \in DOMAIN images /\ index + 1 \in DOMAIN images
  /\ SetRows([images EXCEPT ![index] = images[index + 1], ![index + 1] = images[index]])

RemoveImage(index) ==
  /\ index \in DOMAIN images /\ Len(images) # 1
  /\ SetRows(Rows!RemoveAt(images, index))

AddImage ==
  /\ Len(images) < MaxImages
  /\ SetRows(Append(images, "BLANK"))

AddPreset ==
  /\ "PRESET" \notin Rows!ToSet(images)
  /\ \/ images = <<"BLANK">> /\ SetRows(<<"PRESET">>)
     \/ images # <<"BLANK">> /\ Len(images) < MaxImages /\ SetRows(Append(images, "PRESET"))
-----------------------------------------------------------------------------
(* Uploads: at most as many files as rows are free when they are chosen.   *)

UploadFiles(h, files) ==
  /\ editor = "OPEN" /\ files <= MaxImages - Len(Filled(images))
  /\ Begin(h, [op |-> "PICTURES", left |-> files, done |-> 0, mounted |-> TRUE])
  /\ uploading' = TRUE
  /\ UNCHANGED <<editor, images, busy>>

\* The route has checked who asks and what the file is, and has stored it.
FileUploaded(h) ==
  /\ request[h].op = "PICTURES" /\ request[h].left > 0
  /\ Continue(h, [request[h] EXCEPT !.left = @ - 1, !.done = @ + 1])
  /\ UNCHANGED <<editor, images, uploading, busy>>

FirstOf(rows) == IF Len(rows) > MaxImages THEN SubSeq(rows, 1, MaxImages) ELSE rows

Uploaded(r) == [i \in 1..r.done |-> "UPLOADED"]

\* The rows once an upload ends.  (Slip: the new pictures are put first.)
MergedInFront(r) == FirstOf(Uploaded(r) \o Filled(images))

Merged(r) == FirstOf(Filled(images) \o Uploaded(r))

\* The first upload to end says that none is under way.
UploadEnds(h) ==
  LET r == request[h] IN
  /\ r.op = "PICTURES" /\ r.left = 0
  /\ Finish(h)
  /\ \/ r.mounted /\ images' = Merged(r) /\ uploading' = FALSE
     \/ ~r.mounted /\ UNCHANGED <<images, uploading>>
  /\ UNCHANGED <<editor, busy>>

\* What was uploaded before the file that failed is not shown.
UploadFails(h) ==
  LET r == request[h] IN
  /\ r.op = "PICTURES" /\ r.left > 0
  /\ Finish(h)
  /\ uploading' = IF r.mounted THEN FALSE ELSE uploading
  /\ UNCHANGED <<editor, images, busy>>
-----------------------------------------------------------------------------
(* The save.  The form asks for the first row, the API for at least one    *)
(* picture and at most so many.                                            *)

Submit(h) ==
  /\ editor = "OPEN" /\ ~busy /\ ~uploading
  /\ images[1] # "BLANK"
  /\ Begin(h, [op |-> "SAVE_CAR", images |-> Filled(images)])
  /\ busy' = TRUE
  /\ UNCHANGED <<editor, images, uploading>>

\* The dialog closes over what was changed meanwhile, and stays busy, closed
\* or opened again, until the list was read again.
CarSaved(h) ==
  /\ request[h].op = "SAVE_CAR"
  /\ Len(request[h].images) \in 1..MaxImages
  /\ Closed([Unmounted EXCEPT ![h] = [op |-> "RELOAD_CARS"]])
  /\ UNCHANGED busy

CarNotSaved(h) ==
  /\ request[h].op = "SAVE_CAR" /\ Finish(h) /\ busy' = FALSE
  /\ UNCHANGED <<editor, images, uploading>>

CatalogReloaded(h) ==
  /\ request[h].op = "RELOAD_CARS" /\ Finish(h) /\ busy' = FALSE
  /\ UNCHANGED <<editor, images, uploading>>

VehicleEditorNext ==
  \/ \E gallery \in Galleries : OpenEditor(gallery)
  \/ CloseEditor \/ AddImage \/ AddPreset
  \/ \E index \in 1..MaxImages :
       \/ MoveImage(index) \/ RemoveImage(index)
       \/ \E typed \in Typed : UpdateImage(index, typed)
  \/ \E h \in Handlers :
       \/ \E files \in 1..MaxImages : UploadFiles(h, files)
       \/ FileUploaded(h) \/ UploadEnds(h) \/ UploadFails(h)
       \/ Submit(h) \/ CarSaved(h) \/ CarNotSaved(h) \/ CatalogReloaded(h)

VehicleEditorSpec == VehicleEditorInit /\ [][VehicleEditorNext]_vehicleEditorVars
-----------------------------------------------------------------------------
\* There is a row, and never one more than the API takes pictures.
VehicleEditorTypeOK ==
  /\ editor \in {"OPEN", "CLOSED"}
  /\ images \in UNION {[1..n -> Row] : n \in 1..MaxImages}
  /\ uploading \in BOOLEAN /\ busy \in BOOLEAN
  /\ \A h \in Handlers :
       request[h].op = "SAVE_CAR" => request[h].images \in Galleries \ {<<>>}

(***************************************************************************)
(* An upload that ends keeps every picture the rows hold by then, also     *)
(* those typed or uploaded since it began, in their order, and leaves out  *)
(* of its own only what the rows have no place for.                        *)
(***************************************************************************)
PicturesStay ==
  [][\A h \in Handlers :
       LET r == request[h]
           kept == Filled(images)
           room == MaxImages - Len(kept)
       IN
       (r.op = "PICTURES" /\ r.left = 0 /\ r.mounted /\ request'[h] = NoRequest)
         => /\ Rows!IsPrefix(kept, images')
            /\ Len(images') - Len(kept) = IF r.done < room THEN r.done ELSE room
    ]_vehicleEditorVars
=============================================================================
