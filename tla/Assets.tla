------------------------------- MODULE Assets -------------------------------
(***************************************************************************)
(* AssetService: uploads of files with one and the same name, and          *)
(* deletions.  A file <<n, 0>> is the source of the n-th name made of it,  *)
(* <<n, k>> the k-th name made for the preview of that source.             *)
(*                                                                         *)
(* The rows are in the transaction of the request, the files are not.      *)
(***************************************************************************)
EXTENDS Naturals, FiniteSets

CONSTANTS
    Uploads,    \* the uploads, and the assets they make
    Deletions   \* calls of delete()

VARIABLES
    files,    \* files[f]: the upload that wrote file f
    asset,    \* asset[u]: its row, and the names of its files
    upload,   \* upload[u]: how far the upload is
    deletion, \* deletion[d]: how far the call is, and the asset
    met       \* history: "uploads": two held the same name; "deletions": two
              \* deleted the same asset; "undone": a deletion was rolled back

assetVars == <<files, asset, upload, deletion, met>>

NoDeletion == [at |-> "idle", of |-> {}]

Begun == {u \in Uploads : upload[u] # "idle"}

\* Names are used again, and no more of them than there were uploads.
AssetTypeOK ==
    /\ DOMAIN files \subseteq (1 .. Cardinality(Begun)) \X (0 .. Cardinality(Begun))
    /\ \A f \in DOMAIN files : files[f] \in Uploads
    /\ \A u \in Uploads :
          /\ asset[u].row \in {"none", "saved", "live", "removed", "gone"}
          /\ upload[u] \in {"idle", "named", "both named", "source", "written", "over"}
          /\ asset[u].row # "none" => upload[u] = "over"
    /\ \A d \in Deletions : /\ deletion[d].at \in {"idle", "loaded", "source", "preview", "ends"}
                            /\ deletion[d].at # "idle" => deletion[d].of \in Uploads
    /\ met \subseteq {"uploads", "deletions", "undone"}

AssetInit ==
    /\ files = [f \in {} |-> 0]
    /\ asset = [u \in Uploads |-> [row |-> "none", source |-> <<0, 0>>, preview |-> <<0, 0>>]]
    /\ upload = [u \in Uploads |-> "idle"]
    /\ deletion = [d \in Deletions |-> NoDeletion]
    /\ met = {}

-----------------------------------------------------------------------------
\* generateUniqueName: names are made until there is no such file.
FirstFree_First(taken) == 1
FirstFree(taken) ==
    CHOOSE k \in 1 .. Cardinality(taken) + 1 :
        k \notin taken /\ \A j \in 1 .. k - 1 : j \in taken

Step(u, from, to) == upload[u] = from /\ upload' = [upload EXCEPT ![u] = to]

\* Between the choice of a name and the write of the file another upload may
\* choose the same.
ChooseSource(u) ==
    LET n == FirstFree({f[1] : f \in {g \in DOMAIN files : g[2] = 0}}) IN
    /\ Step(u, "idle", "named")
    /\ asset' = [asset EXCEPT ![u].source = <<n, 0>>]
    /\ met' = IF \E v \in Uploads \ {u} : /\ upload[v] \in {"named", "both named"}
                                          /\ asset[v].source = <<n, 0>>
              THEN met \cup {"uploads"} ELSE met
    /\ UNCHANGED <<files, deletion>>

ChoosePreview(u) ==
    LET n == asset[u].source[1]
        k == FirstFree({f[2] : f \in {g \in DOMAIN files : g[1] = n /\ g[2] > 0}})
    IN  /\ Step(u, "named", "both named")
        /\ asset' = [asset EXCEPT ![u].preview = <<n, k>>]
        /\ UNCHANGED <<files, deletion, met>>

Put(f, u) == files' = [g \in DOMAIN files \cup {f} |-> IF g = f THEN u ELSE files[g]]

WriteSource(u) ==
    /\ Step(u, "both named", "source")
    /\ Put(asset[u].source, u)
    /\ UNCHANGED <<asset, deletion, met>>

WritePreview(u) ==
    /\ Step(u, "source", "written")
    /\ Put(asset[u].preview, u)
    /\ UNCHANGED <<asset, deletion, met>>

SaveAsset(u) ==
    /\ Step(u, "written", "over")
    /\ asset' = [asset EXCEPT ![u].row = "saved"]
    /\ UNCHANGED <<files, deletion, met>>

\* There is no image to make a preview of, say.  What is written stays.
UploadFails(u) ==
    /\ upload[u] \notin {"idle", "over"}
    /\ upload' = [upload EXCEPT ![u] = "over"]
    /\ UNCHANGED <<files, asset, deletion, met>>

EndUpload(u) ==
    /\ asset[u].row = "saved"
    /\ \E row \in {"live", "gone"} : asset' = [asset EXCEPT ![u].row = row]
    /\ UNCHANGED <<files, upload, deletion, met>>

-----------------------------------------------------------------------------
Deleting(u) == {d \in Deletions : deletion[d].of = u}

\* delete: the asset is found; a job post that uses it refuses the rest.
LoadAsset(d) ==
    \E u \in Uploads :
       /\ deletion[d] = NoDeletion
       /\ asset[u].row \in {"live", "removed"}
       /\ deletion' = [deletion EXCEPT ![d] = [at |-> "loaded", of |-> u]]
       /\ met' = IF Deleting(u) # {} THEN met \cup {"deletions"} ELSE met
       /\ UNCHANGED <<files, asset, upload>>

\* remove() waits while another transaction has removed the row; that the row
\* is gone by then does not matter to it.
RemoveRow(d) ==
    LET u == deletion[d].of IN
    /\ deletion[d].at = "loaded" /\ asset[u].row # "removed"
    /\ asset' = [asset EXCEPT ![u].row = IF @ = "live" THEN "removed" ELSE @]
    /\ deletion' = [deletion EXCEPT ![d].at = "source"]
    /\ UNCHANGED <<files, upload, met>>

DeleteFile(f) == files' = [g \in DOMAIN files \ {f} |-> files[g]]

\* An error of one file leaves the other one alone, and is logged.
DeleteSourceFile(d) ==
    LET f == asset[deletion[d].of].source IN
    /\ deletion[d].at = "source"
    /\ \/ /\ f \in DOMAIN files
          /\ DeleteFile(f)
          /\ deletion' = [deletion EXCEPT ![d].at = "preview"]
       \/ deletion' = [deletion EXCEPT ![d].at = "ends"] /\ UNCHANGED files
    /\ UNCHANGED <<asset, upload, met>>

DeletePreviewFile(d) ==
    LET f == asset[deletion[d].of].preview IN
    /\ deletion[d].at = "preview"
    /\ DeleteFile(f) \/ UNCHANGED files
    /\ deletion' = [deletion EXCEPT ![d].at = "ends"]
    /\ UNCHANGED <<asset, upload, met>>

\* The transaction is committed, or it is rolled back: the files do not return.
EndDeletion(d) ==
    LET u == deletion[d].of IN
    /\ deletion[d].at = "ends"
    /\ \/ asset' = [asset EXCEPT ![u].row = "gone"] /\ UNCHANGED met
       \/ /\ asset[u].row = "removed"
          /\ asset' = [asset EXCEPT ![u].row = "live"] /\ met' = met \cup {"undone"}
    /\ deletion' = [deletion EXCEPT ![d] = NoDeletion]
    /\ UNCHANGED <<files, upload>>

AssetNext ==
    \/ \E u \in Uploads : \/ ChooseSource(u) \/ ChoosePreview(u) \/ WriteSource(u)
                          \/ WritePreview(u) \/ SaveAsset(u) \/ UploadFails(u) \/ EndUpload(u)
    \/ \E d \in Deletions : \/ LoadAsset(d) \/ RemoveRow(d) \/ DeleteSourceFile(d)
                            \/ DeletePreviewFile(d) \/ EndDeletion(d)

-----------------------------------------------------------------------------
\* Every asset has the two files its own upload wrote, although names are used
\* again as soon as a file is deleted and a deletion may leave either file
\* behind.  Not so after two uploads chose one name at a time, after two calls
\* deleted one asset, or when a deletion was rolled back.
AssetsHaveTheirFiles ==
    met = {} =>
       \A u \in Uploads : asset[u].row \in {"saved", "live"} =>
          \A f \in {asset[u].source, asset[u].preview} : f \in DOMAIN files /\ files[f] = u
=============================================================================
