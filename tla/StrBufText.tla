----------------------------- MODULE StrBufText -----------------------------
(* A heap string of StrBuf implements the text of StrText.                 *)
EXTENDS StrBuf

NoText == <<-1>>

Text == INSTANCE StrText
    WITH text <- IF strState = "ok" /\ str.kind = "heap" THEN Content(str) ELSE NoText

(* Whatever grows, shrinks or moves underneath, the characters of a heap   *)
(* string change as StrText says of the calls, which for prints is more    *)
(* than string.h promises, and no call touches the string another one was  *)
(* made from.  A call that goes wrong ends the text: a print or a growth   *)
(* without memory, a write behind a capacity that was misread.             *)
ImplementsText == Text!Spec
=============================================================================
