------------------------------ MODULE Routing ------------------------------
(***************************************************************************)
(* Which requests are S3 requests and which operation each one is          *)
(* (controllers/s3/mod.rs).  A request as it arrives is a record:          *)
(*   method                                                                *)
(*   bucket, name    what split_path makes of the path, or None            *)
(*   params          the query parameters other than the signature's       *)
(*   body            the object keys a batch delete names                  *)
(*   source          x-amz-copy-source as <<bucket, name>>, or None        *)
(*   html            whether it accepts text/html                          *)
(*   auth            the credentials (module SigV4)                        *)
(***************************************************************************)
EXTENDS Naturals, Rows

CONSTANTS
  ReservedNames,  \* RESERVED_BUCKET_NAMES
  ConsoleFiles    \* the paths frontend/dist has a file at, as <<bucket, name>>

\* Parameters only S3 uses; "x-amz-" stands for any that begins so.
Markers == {"list-type", "uploads", "uploadId", "partNumber", "delete", "versionId", "x-amz-"}

Signed(w) == w.auth.form # "none"

\* is_s3_request: credentials or S3's own parameters, or else whatever is not
\* the console's.
IsS3Request(w) ==
  \/ Signed(w)
  \/ w.params \cap Markers # {}
  \/ /\ w.bucket # None
     /\ w.bucket \notin ReservedNames
     /\ ~w.html
     /\ <<w.bucket, w.name>> \notin ConsoleFiles

Level(w) == IF w.bucket = None THEN "root" ELSE IF w.name = None THEN "bucket" ELSE "object"

\* Rows of the dispatch: method, level, what has to hold of the request, the
\* operation, the action it needs, and what resolves it.  The first row that
\* fits counts.
Row(method, level, needs, op, action, resolver) ==
  [method |-> method, level |-> level, needs |-> needs, op |-> op, action |-> action,
   resolver |-> resolver]

Dispatch == <<
  Row("GET", "root", {}, "ListBuckets", None, "account"),
  Row("HEAD", "root", {}, "ListBuckets", None, "account"),
  Row("GET", "bucket", {"list-type"}, "ListObjectsV2", "list", "bucket"),
  Row("GET", "bucket", {"uploads"}, "ListMultipartUploads", "multipart", "bucket"),
  Row("GET", "bucket", {}, "NotImplemented", "list", "bucket"),
  Row("HEAD", "bucket", {}, "HeadBucket", "list", "bucket"),
  Row("POST", "bucket", {"delete"}, "DeleteObjects", "delete", "bucket"),
  Row("POST", "bucket", {}, "NotImplemented", "delete", "bucket"),
  Row("PUT", "bucket", {}, "NotImplemented", None, "nothing"),
  Row("DELETE", "bucket", {}, "NotImplemented", None, "nothing"),
  Row("GET", "object", {"uploadId"}, "ListParts", "multipart", "object"),
  Row("GET", "object", {}, "GetObject", "read", "object"),
  Row("HEAD", "object", {}, "HeadObject", "read", "object"),
  Row("PUT", "object", {"uploadId", "partNumber", "copy"}, "UploadPartCopy", "multipart", "object"),
  Row("PUT", "object", {"uploadId", "partNumber"}, "UploadPart", "multipart", "object"),
  Row("PUT", "object", {"copy"}, "CopyObject", "write", "object"),
  Row("PUT", "object", {}, "PutObject", "write", "object"),
  Row("POST", "object", {"uploads"}, "CreateMultipartUpload", "multipart", "object"),
  Row("POST", "object", {"uploadId"}, "CompleteMultipartUpload", "multipart", "object"),
  Row("POST", "object", {}, "NotImplemented", "multipart", "object"),
  Row("DELETE", "object", {"uploadId"}, "AbortMultipartUpload", "multipart", "object"),
  Row("DELETE", "object", {}, "DeleteObject", "delete", "object") >>

Has(w) == w.params \cup (IF w.source = None THEN {} ELSE {"copy"})

Fits(w, row) == row.method = w.method /\ row.level = Level(w) /\ row.needs \subseteq Has(w)

RouteOf(w) ==
  LET fit == {i \in DOMAIN Dispatch : Fits(w, Dispatch[i])} IN
  Dispatch[CHOOSE i \in fit : \A j \in fit : i <= j]

\* The action the audit log names: that of the route's handler, whatever the
\* branch it took.
HandlerAction(w) ==
  CASE Level(w) # "object" /\ w.method \in {"GET", "HEAD"} -> "list"
    [] Level(w) = "bucket" /\ w.method = "POST" -> "delete"
    [] Level(w) = "bucket" -> "write"
    [] w.method \in {"GET", "HEAD"} -> "read"
    [] w.method = "PUT" -> "write"
    [] w.method = "POST" -> "multipart"
    [] OTHER -> "delete"
=============================================================================
