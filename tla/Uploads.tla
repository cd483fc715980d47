----------------------------- MODULE Uploads ------------------------------
(***************************************************************************)
(* The batch upload of the web face: the limits of the whole batch, then   *)
(* one capture per file, each with its own answer.                         *)
(*                                                                         *)
(* A file is [size, ext, text, staged]: text is whether its text can be    *)
(* extracted; staged is what the inbox does with it: "ok", "refused" (an   *)
(* AttachmentError or another ValueError) or "fault" (the disk).           *)
(* A policy is [max_files, total_bytes, max_bytes, allowed].  Status 400   *)
(* stands for every refusal of the batch, tags that do not parse included. *)
(***************************************************************************)
EXTENDS Naturals, Sequences, FiniteSets, FiniteSetsExt

BatchFile == [size : Nat, ext : STRING, text : BOOLEAN, staged : {"ok", "refused", "fault"}]
IsBatch(files) == files \in Seq(BatchFile)

SizeOf(files) ==
  LET sum[k \in 0 .. Len(files)] == IF k = 0 THEN 0 ELSE sum[k - 1] + files[k].size
  IN sum[Len(files)]

\* _file_to_markdown and the failures of the inbox that are an answer to the file.
Answer(f, policy) ==
  CASE f.size > policy.max_bytes -> "too large"
    [] f.size <= policy.max_bytes /\ f.ext \notin policy.allowed -> "extension"
    [] f.size <= policy.max_bytes /\ f.ext \in policy.allowed /\ ~f.text -> "no text"
    [] OTHER -> IF f.staged = "refused" THEN "refused" ELSE "captured"

\* What the request has answered and captured before its first file.
Begun == [status |-> 200, results |-> <<>>, inbox |-> {}]
RefusedBatch == [Begun EXCEPT !.status = 400]
\* One file: what the inbox cannot write ends the request, and every file after it.
Capture(r, files, policy, i) ==
  LET answer == Answer(files[i], policy)
  IN IF r.status # 200 THEN r
     ELSE IF answer = "captured" /\ files[i].staged = "fault" THEN [r EXCEPT !.status = 500]
     ELSE [status |-> 200, results |-> Append(r.results, answer),
           inbox |-> r.inbox \cup IF answer = "captured" THEN {i} ELSE {}]
\* The request after its first k files, for every k.
Captured(files, policy) ==
  LET after[k \in 0 .. Len(files)] ==
        IF k = 0 THEN Begun ELSE Capture(after[k - 1], files, policy, k)
  IN after
\* (mutant) the size of the batch is counted as its files are captured.
BatchCountedLate(files, tagsOk, policy) ==
  LET fits(k) == SizeOf(SubSeq(files, 1, k)) <= policy.total_bytes
      over == {k \in DOMAIN files : ~fits(k)}
  IN IF files = <<>> \/ Len(files) > policy.max_files \/ ~tagsOk THEN RefusedBatch
     ELSE IF over = {} THEN Captured(files, policy)[Len(files)]
     ELSE [Captured(files, policy)[Min(over) - 1] EXCEPT !.status = 413]
\* _do_upload_batch: every file is read and counted before the first is captured.
UploadBatch(files, tagsOk, policy) ==
  IF \/ files = <<>> \/ Len(files) > policy.max_files \/ ~tagsOk
     \/ SizeOf(files) > policy.total_bytes
  THEN RefusedBatch
  ELSE Captured(files, policy)[Len(files)]

-----------------------------------------------------------------------------
\* A batch that is refused has captured nothing; one that is answered names, file by
\* file, what was captured, and one file that fails takes no other with it.  Only a
\* disk fault leaves captures that no answer names: the files before it.
BatchIsAnswered(x) ==
  LET r == UploadBatch(x.files, x.tagsOk, x.policy)
      good == {i \in DOMAIN x.files : Answer(x.files[i], x.policy) = "captured"}
      faults == {i \in good : x.files[i].staged = "fault"}
  IN /\ r.status = 400 => r.inbox = {}
     /\ r.status = 200 =>
          /\ faults = {} /\ r.inbox = good
          /\ Len(r.results) = Len(x.files)
          /\ \A i \in DOMAIN x.files : r.results[i] = "captured" <=> i \in r.inbox
     /\ r.status \notin {200, 400} =>
          /\ faults # {}
          /\ r.inbox = {i \in good : i < Min(faults)}
=============================================================================
