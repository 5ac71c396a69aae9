---------------------------- MODULE AssetServer ----------------------------
(***************************************************************************)
(* AssetServerPlugin over LocalAssetStorageStrategy: requests for files    *)
(* and for transformed images of them, the directory both are kept in, and *)
(* what AssetService does to the files in the meantime.                    *)
(*                                                                         *)
(* A file name is a base and an extension.  The MD5 of the parameters is   *)
(* taken to be as good as the parameters.                                  *)
(***************************************************************************)
EXTENDS Naturals, FiniteSets

CONSTANTS
    Files,         \* names of uploaded files: [base, ext]
    Queries,       \* what is asked for
    FileRequests,  \* overlapping requests
    MaxFileWrites, \* bound: uploads
    MaxServed      \* bound: requests that are ever begun

VARIABLES
    disk,      \* disk[p]: the image under path p, and whether it is whole
    uploads,   \* uploads so far
    written,   \* written[f]: the uploads of this name
    uploading, \* the files that are being written by an upload
    serving,   \* serving[r]: a request
    served,    \* requests begun so far
    spoilt     \* history: paths written for two kinds of request, or by two at
               \* a time, or not to the end

serverVars == <<disk, uploads, written, uploading, serving, served, spoilt>>

Query == [size : {"none", "w", "w h"}, preset : {"none", "tiny", "unknown"},
          mode : {"none", "crop", "resize"}, focus : {"none", "origin", "right"},
          format : {"none", "png"}, cache : BOOLEAN]

ASSUME AssetServerAssumption == /\ \A f \in Files : f = [base |-> f.base, ext |-> f.ext]
                                /\ Queries \subseteq Query
                                /\ {MaxFileWrites, MaxServed} \subseteq Nat

-----------------------------------------------------------------------------
\* getFileNameFromRequest: the parameters that are part of the name.
AsUploaded == [size |-> "none", preset |-> "none", mode |-> "none", focus |-> "none",
               format |-> "none"]

NameParams_NoFocus(q) ==
    [size |-> q.size,
     preset |-> IF q.size = "none" /\ q.preset = "tiny" THEN "tiny" ELSE "none",
     mode |-> IF q.size = "none" THEN "none" ELSE q.mode,
     focus |-> "none", format |-> q.format]

NameParams(q) ==
    [size |-> q.size,
     preset |-> IF q.size = "none" /\ q.preset = "tiny" THEN "tiny" ELSE "none",
     mode |-> IF q.size = "none" THEN "none" ELSE q.mode,
     focus |-> q.focus, format |-> q.format]

\* addSuffix: another format is another extension, but the base stays.
PathOf(f, q) ==
    LET params == NameParams(q) IN
    [base |-> f.base, ext |-> IF q.format = "none" THEN f.ext ELSE q.format, params |-> params]

Original(f) == [base |-> f.base, ext |-> f.ext, params |-> AsUploaded]

\* transformImage: a preset goes before a size, a coordinate of 0 is none, and a
\* focal point needs both dimensions and a crop.
Transformed(q) ==
    LET size == IF q.preset = "tiny" THEN "tiny" ELSE q.size
        mode == IF q.preset # "tiny" /\ q.mode = "resize" THEN "resize" ELSE "crop"
    IN  [size |-> size,
         mode |-> IF size = "none" THEN "none" ELSE mode,
         focus |-> IF q.focus = "right" /\ size \in {"w h", "tiny"} /\ mode = "crop"
                   THEN "right" ELSE "none",
         format |-> q.format]

\* Of an image that is only encoded again the same is said.
Unchanged == [size |-> "none", mode |-> "none", focus |-> "none", format |-> "none"]

NoFile == [base |-> "", ext |-> ""]
NoImage == [of |-> NoFile, upload |-> 0, as |-> Unchanged]
NotServing == [at |-> "idle", file |-> NoFile, query |-> AsUploaded, image |-> NoImage,
               whole |-> TRUE, sure |-> FALSE]

AssetServerTypeOK ==
    /\ \A p \in DOMAIN disk : disk[p].whole \in BOOLEAN /\ disk[p].image.of \in Files \cup {NoFile}
    /\ uploads \in 0 .. MaxFileWrites
    /\ \A f \in Files : written[f] \subseteq 1 .. uploads
    /\ uploading \subseteq Files
    /\ \A r \in FileRequests :
          /\ serving[r].at \in {"idle", "missed", "transformed", "writing", "served"}
          /\ serving[r].at # "idle" => serving[r].query \in Queries

AssetServerInit ==
    /\ disk = [p \in {} |-> NoImage]
    /\ uploads = 0
    /\ written = [f \in Files |-> {}]
    /\ uploading = {}
    /\ serving = [r \in FileRequests |-> NotServing]
    /\ served = 0
    /\ spoilt = {}

-----------------------------------------------------------------------------
PathAsked(r) == PathOf(serving[r].file, serving[r].query)
Writers(p) == {r \in FileRequests : serving[r].at = "writing" /\ PathAsked(r) = p}

Store(p, image, whole) ==
    disk' = [d \in DOMAIN disk \cup {p} |->
                IF d = p THEN [image |-> image, whole |-> whole] ELSE disk[d]]

LastOf(S) == CHOOSE n \in S : \A m \in S : m <= n

\* The file appears when it is opened and is whole when it is closed, if nobody
\* else has written it.
BeginUpload(f) ==
    /\ Original(f) \notin DOMAIN disk /\ f \notin uploading
    /\ uploads < MaxFileWrites
    /\ uploads' = uploads + 1
    /\ written' = [written EXCEPT ![f] = @ \cup {uploads + 1}]
    /\ uploading' = uploading \cup {f}
    /\ Store(Original(f), [of |-> f, upload |-> uploads + 1, as |-> Unchanged], FALSE)
    /\ UNCHANGED <<serving, served, spoilt>>

EndUpload(f) ==
    /\ f \in uploading
    /\ uploading' = uploading \ {f}
    /\ LET p == Original(f)
           image == [of |-> f, upload |-> LastOf(written[f]), as |-> Unchanged]
       IN Store(p, image, disk[p].image = image)
    /\ UNCHANGED <<uploads, written, serving, served, spoilt>>

\* AssetService.delete knows nothing of transformed images.  Who is writing the
\* file goes on writing a file without a name.
DeleteOriginal(f) ==
    /\ Original(f) \in DOMAIN disk /\ f \notin uploading
    /\ disk' = [p \in DOMAIN disk \ {Original(f)} |-> disk[p]]
    /\ serving' = [r \in FileRequests |->
          IF r \in Writers(Original(f)) THEN [serving[r] EXCEPT !.at = "served"] ELSE serving[r]]
    /\ UNCHANGED <<uploads, written, uploading, served, spoilt>>

-----------------------------------------------------------------------------
\* A size beside a known preset is part of the name, and the preset is what counts.
Combined(q) == q.size # "none" /\ q.preset = "tiny"
SharesName(f, q) == q.format # "none" /\ \E g \in Files \ {f} : g.base = f.base

\* What is to be expected of what lies under the path of a request now.
Sure(f, q) ==
    /\ PathOf(f, q) \notin spoilt /\ Writers(PathOf(f, q)) = {}
    /\ ~SharesName(f, q)
    /\ f \notin uploading

\* sendAsset
ReadFile(r) ==
    \E f \in Files, q \in Queries :
       LET p == PathOf(f, q) IN
       /\ serving[r].at \in {"idle", "served"} /\ served < MaxServed
       /\ served' = served + 1
       /\ serving' = [serving EXCEPT ![r] =
             IF p \in DOMAIN disk
             THEN [at |-> "served", file |-> f, query |-> q, image |-> disk[p].image,
                   whole |-> disk[p].whole, sure |-> Sure(f, q) /\ ~Combined(q)]
             ELSE [NotServing EXCEPT !.at = "missed", !.file = f, !.query = q]]
       /\ UNCHANGED <<disk, uploads, written, uploading, spoilt>>

\* generateTransformedImage; half an image cannot be transformed.
TransformOriginal(r) ==
    LET s == serving[r] IN
    /\ s.at = "missed" /\ Original(s.file) \in DOMAIN disk
    /\ disk[Original(s.file)].whole
    /\ serving' = [serving EXCEPT ![r] =
          [s EXCEPT !.at = IF s.query.cache THEN "transformed" ELSE "served",
                    !.image = [disk[Original(s.file)].image EXCEPT !.as = Transformed(s.query)],
                    !.sure = NameParams(s.query) # AsUploaded /\ s.file \notin uploading]]
    /\ UNCHANGED <<disk, uploads, written, uploading, served, spoilt>>

ServingFails(r) ==
    /\ serving[r].at \in {"missed", "transformed"}
    /\ serving' = [serving EXCEPT ![r] = NotServing]
    /\ UNCHANGED <<disk, uploads, written, uploading, served, spoilt>>

\* writeFileFromBuffer opens the file, which makes it empty, and then writes.
OpenCached(r) ==
    LET p == PathAsked(r) IN
    /\ serving[r].at = "transformed"
    /\ serving' = [serving EXCEPT ![r].at = "writing"]
    /\ Store(p, NoImage, FALSE)
    /\ spoilt' = IF \/ Writers(p) # {} \/ Combined(serving[r].query)
                    \/ p.params = AsUploaded
                 THEN spoilt \cup {p} ELSE spoilt
    /\ UNCHANGED <<uploads, written, uploading, served>>

\* Two that write at a time leave a mixture, unless they write the same.
WriteCached(r) ==
    LET p == PathAsked(r) IN
    /\ serving[r].at = "writing"
    /\ serving' = [serving EXCEPT ![r].at = "served"]
    /\ Store(p, serving[r].image, disk[p].image \in {NoImage, serving[r].image})
    /\ UNCHANGED <<uploads, written, uploading, served, spoilt>>

\* The disk is full, or the process ends.
WriteFails(r) ==
    /\ serving[r].at = "writing"
    /\ serving' = [serving EXCEPT ![r] = NotServing]
    /\ spoilt' = spoilt \cup {PathAsked(r)}
    /\ UNCHANGED <<disk, uploads, written, uploading, served>>

AssetServerNext ==
    \/ \E f \in Files : BeginUpload(f) \/ EndUpload(f) \/ DeleteOriginal(f)
    \/ \E r \in FileRequests : \/ ReadFile(r) \/ TransformOriginal(r) \/ ServingFails(r)
                               \/ OpenCached(r) \/ WriteCached(r) \/ WriteFails(r)

-----------------------------------------------------------------------------
\* What the documentation of the plugin says that a query asks for.  A preset
\* stands for its width, height and mode.  A frame is cropped if both dimensions
\* are given and the mode is not `resize'; its focal point is the one given,
\* and fpx=0&fpy=0 is the top left.
Cropped(q) == q.preset = "tiny" \/ (q.size = "w h" /\ q.mode # "resize")
Asked(q) ==
    [size |-> IF q.preset = "tiny" THEN "tiny" ELSE q.size,
     mode |-> CASE q.preset = "tiny" -> "crop"
                [] q.preset # "tiny" /\ q.size = "none" -> "none"
                [] OTHER -> IF q.mode = "resize" THEN "resize" ELSE "crop",
     focus |-> IF Cropped(q) THEN q.focus ELSE "none",
     format |-> q.format]

Gets(r, q) ==
    /\ serving[r].whole
    /\ \E n \in written[serving[r].file] :
          serving[r].image = [of |-> serving[r].file, upload |-> n, as |-> Asked(q)]

\* The code knows no focal point at the top left: transformImage takes a coordinate
\* of 0 for none.
WithoutOrigin(q) == IF q.focus = "origin" THEN [q EXCEPT !.focus = "none"] ELSE q

\* Whoever fills the cache for whom: what a request gets is whole, is transformed
\* as the documentation says, though not around the top left if it asks for that,
\* and is of the file of that name, or of an earlier one when the name was used
\* again.  Not so when the path was also written for a size beside a preset, for
\* a file that differs in its extension only, by two requests at a time or not to
\* the end, nor while it is being written.
ServedAsAsked ==
    \A r \in FileRequests :
       serving[r].at = "served" /\ serving[r].sure => Gets(r, WithoutOrigin(serving[r].query))
=============================================================================
