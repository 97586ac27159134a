----------------------------- MODULE HTTPResponse -----------------------------
(***************************************************************************)
(* http/httpresponse.c: an answer that is sent piece by piece and can be   *)
(* resumed wherever send() left off.  A response is a record; the          *)
(* operators say what the code makes of it, and HTTPAnswer uses them with  *)
(* a connection to send on.                                                *)
(*                                                                         *)
(* Texts are sequences of bytes that say where they belong.  Every string  *)
(* has StringSize bytes, wherever in the answer it stands.                 *)
(***************************************************************************)
EXTENDS Naturals, Sequences, SequencesExt

CONSTANTS Headers,     \* entries of headerDictionary; the server sets one, "Server"
          StringSize,  \* bytes of a string, also of one that is the body
          FileSize     \* bytes of a file that is not empty

ASSUME HTTPResponseAssumption ==
  /\ Headers \in Nat \ {0} /\ StringSize \in Nat \ {0} /\ FileSize \in Nat \ {0}

\* What HTTPProcessRequest answers with: an error and its name, or a regular file,
\* which open() may fail to open although lstat() found it.
Bodies == {"string", "file", "empty file", "unopened file"}

Bytes(part, size) == [i \in 1..size |-> <<part, i>>]

BodySize(body) == CASE body = "string" -> StringSize
                    [] body = "file"   -> FileSize
                    [] OTHER           -> 0

\* A part of an answer is a string or the file; each header has its own.
HeaderPart(name, n) == [part |-> name, header |-> n]
Part(name)          == HeaderPart(name, 0)

\* The whole answer.
StatusLine      == Bytes(Part("status line"), StringSize)
HeadersEnd      == Bytes(Part("headers end"), StringSize)
HeaderText(n)   == Bytes(HeaderPart("key", n), StringSize)
                     \o Bytes(HeaderPart("delimiter", n), StringSize)
                     \o Bytes(HeaderPart("value", n), StringSize)
                     \o Bytes(HeaderPart("line end", n), StringSize)
FirstHeaders(n) == FlattenSeq([m \in 1..n |-> HeaderText(m)])
Text == [body \in Bodies |-> StatusLine \o FirstHeaders(Headers) \o HeadersEnd
                               \o Bytes(Part("body"), BodySize(body))]

\* extra says which of the structs sendStatusExtra points to, and the fields from
\* sentBytes on are what it holds.  iter is the header the iterator is at.
HTTPResponseCreate(body) ==
  [body |-> body, retainCount |-> 1, sendStatus |-> "not started", extra |-> "none",
   sentBytes |-> 0, status |-> "key", iter |-> 1, fileOffset |-> 0]

\* HTTPResponseSend falls through from "not started"; each of the functions it calls
\* allocates its struct unless it is there already.
Begun(r) ==
  LET stage == IF r.sendStatus = "not started" THEN "status line" ELSE r.sendStatus
  IN  IF r.extra # "none" THEN [r EXCEPT !.sendStatus = stage]
      ELSE [r EXCEPT !.sendStatus = stage, !.extra = stage, !.sentBytes = 0,
                     !.status = "key", !.iter = 1, !.fileOffset = 0]

SendsFile(r) == r.sendStatus = "body" /\ r.body # "string"

CurrentPart(r) == IF r.sendStatus # "headers" THEN Part(r.sendStatus)
              ELSE IF r.iter > Headers THEN Part("headers end")
              ELSE HeaderPart(r.status, r.iter)

\* What is left of the current part, and the bytes of it that send() takes.
Remaining(r) == IF SendsFile(r) THEN BodySize(r.body) - r.fileOffset
                ELSE StringSize - r.sentBytes
Offset(r)    == IF SendsFile(r) THEN r.fileOffset ELSE r.sentBytes
Taken(r, s)  == [i \in 1..s |-> <<CurrentPart(r), Offset(r) + i>>]

\* sendStatus++, after the struct was freed.
NextStage(r) == [r EXCEPT !.extra = "none",
                          !.sendStatus = CASE @ = "status line" -> "headers"
                                           [] @ = "headers"     -> "body"
                                           [] @ = "body"        -> "complete"]

\* The switch of HTTPResponseSendHeaders, when the string was sent.
NextHeaderPart(r) ==
  IF r.status = "line end"
  THEN [r EXCEPT !.iter = @ + 1, !.status = IF r.iter < Headers THEN "key" ELSE "headers end"]
  ELSE [r EXCEPT !.status = CASE @ = "key"       -> "delimiter"
                              [] @ = "delimiter" -> "value"
                              [] @ = "value"     -> "line end"]

Passed(r) == IF r.sendStatus = "headers" /\ r.iter <= Headers THEN NextHeaderPart(r)
             ELSE NextStage(r)

\* Mutant of StringSent: sentBytes keeps counting over the strings of a stage.
StringSentOn(r, s) ==
  IF s < Remaining(r) THEN [r EXCEPT !.sentBytes = @ + s]
  ELSE [Passed(r) EXCEPT !.sentBytes = StringSize - 1]

\* HTTPResponseSendString: true, and on to the next string, when all of it was taken.
StringSent(r, s) ==
  IF s < Remaining(r) THEN [r EXCEPT !.sentBytes = @ + s]
  ELSE [Passed(r) EXCEPT !.sentBytes = 0]

\* HTTPConnectionSendFD: true only when there was nothing left to take.
FileSent(r, s) == IF Remaining(r) = 0 THEN Passed(r) ELSE [r EXCEPT !.fileOffset = @ + s]

------------------------------------------------------------------------------
(* What makes AnswerInOrder inductive. *)

\* What a response can be: its fields, and what they have to do with each other.
ResponseRecords ==
  [body : Bodies, retainCount : Nat,
   sendStatus : {"not started", "status line", "headers", "body", "complete"},
   extra : {"none", "status line", "headers", "body"}, sentBytes : Nat,
   status : {"key", "delimiter", "value", "line end", "headers end"},
   iter : 1..(Headers + 1), fileOffset : Nat]
Responses ==
  {r \in ResponseRecords :
     /\ r.retainCount > 0
     /\ r.extra \in {"none", r.sendStatus}
     /\ r.sentBytes < StringSize
     /\ r.status = "headers end" <=> r.iter = Headers + 1
     /\ r.fileOffset <= BodySize(r.body)}

\* What stands before the part the response is at, and what it has sent.
Before(r) ==
  LET part(name) == Bytes(HeaderPart(name, r.iter), StringSize)
      headers    == StatusLine \o FirstHeaders(r.iter - 1)
  IN  CASE r.sendStatus = "status line" -> <<>>
        [] r.sendStatus = "headers" ->
             CASE r.status = "delimiter" -> headers \o part("key")
               [] r.status = "value"     -> headers \o part("key") \o part("delimiter")
               [] r.status = "line end"  -> headers \o part("key") \o part("delimiter")
                                              \o part("value")
               [] OTHER                  -> headers
        [] OTHER -> StatusLine \o FirstHeaders(Headers) \o HeadersEnd
SentBy(r) == Before(r) \o Bytes(CurrentPart(r), Offset(r))
==============================================================================
