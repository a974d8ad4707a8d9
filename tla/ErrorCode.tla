----------------------------- MODULE ErrorCode ------------------------------
(***************************************************************************)
(* Return codes (src/src/error.c, error.h): how an error is packed into 64 *)
(* bits and taken apart, the return code of each thread, and the message   *)
(* of one.                                                                 *)
(*                                                                         *)
(* A return code is a record of its fields: the error flag e, the version  *)
(* v (7 bits), the revision r (8), the errno o (16), the user bits u (8),  *)
(* and the low 24 bits as a number, low: the code (8 bits), the flag "not" *)
(* (1) and the subject (15).                                               *)
(***************************************************************************)
EXTENDS Integers

CONSTANTS
    Threads,    \* bound: the threads that use the library
    Starter,    \* the one that calls ina_init
    Version,    \* the minor and the micro version, [minor, micro]
    Reported,   \* bound: the errors a client or the library reports
    Errnos,     \* bound: values of errno
    UserBits    \* bound: what clients mark return codes with

-----------------------------------------------------------------------------
(* The fields.                                                             *)

NotBit == 32768                \* 1 << INA_RC_BIT_N
CodeUnit == 65536              \* 1 << INA_RC_BIT_C

RC == [e : 0 .. 1, v : Nat, r : Nat, o : Nat, u : Nat, low : Nat]

Codes == 1 .. 157              \* INA_ERR_A .. INA_ERR_CHANGED, as numbers

(* The subjects the library has a word for: INA_ES_NONE .. INA_ES_API, but *)
(* not INA_ES_SOCKET.                                                      *)
Subjects == (0 .. 42) \ {20}

(* What a client writes: a code, the negated code, either with a subject.  *)
Positive(code) == code * CodeUnit
Negative(code) == Positive(code) + NotBit
ErrorOf(adj, subject) == adj + subject

EFlag(rc) == rc.e
Ver(rc) == rc.v % 8
Rev(rc) == rc.r
Errno(rc) == rc.o
Ubits(rc) == rc.u
NFlag(rc) == (rc.low \div NotBit) % 2
Code(rc) == CodeUnit * (rc.low \div CodeUnit)
Adj(rc) == rc.low \div CodeUnit
Subject(rc) == rc.low % NotBit
ErrMsg(rc) == rc.low

(* INA_MID_BITS counts its position from 1: nine bits from the top bit of  *)
(* the subject on, which leaves out the top bit of the code.               *)
RcError(rc) == (NotBit \div 2) * ((rc.low \div (NotBit \div 2)) % 512)

Success == [e |-> 0, v |-> 0, r |-> 0, o |-> 0, u |-> 0, low |-> 0]

(* Of the version only the last two numbers fit.                           *)
Pack(x, errno) ==
    [e |-> 1, v |-> Version.minor, r |-> Version.micro, o |-> errno, u |-> 0, low |-> x]

Failed(rc) == EFlag(rc) = 1

(* Mutant: nothing is left of an error that was handled.                   *)
ClearAll(rc) == Success

ClearRc(rc) == [rc EXCEPT !.e = 0]

WithUbits(rc, ubits) == [rc EXCEPT !.u = ubits]

ASSUME ErrorCodeAssumption ==
    /\ Starter \in Threads
    /\ Version \in [minor : Nat, micro : Nat]
    /\ Version.minor < 128 /\ Version.micro < 256
    /\ Reported \subseteq [code : Codes, neg : BOOLEAN, subject : Nat]
    /\ \A err \in Reported : err.subject < NotBit
    /\ Errnos \subseteq Nat /\ \A errno \in Errnos : errno < 65536
    /\ UserBits \subseteq Nat /\ \A ubits \in UserBits : ubits < 256

NoError == [code |-> 0, neg |-> FALSE, subject |-> 0]

(* The word of a reported error, without and with its subject.             *)
Reason(err) == IF err.neg THEN Negative(err.code) ELSE Positive(err.code)
Word(err) == ErrorOf(Reason(err), err.subject)

-----------------------------------------------------------------------------
(* The message.                                                            *)

(* The codes strerror has no word for, ...                                 *)
Wordless ==
    {17, 26, 30, 34, 53, 61, 64, 72, 87, 89, 90, 93, 102, 111, 112, 114,
     134, 135, 136, 137, 139, 140, 141, 148}

(* ... and those whose word is meant to stand before the subject: A, NO,   *)
(* NO_SUCH, ENOUGH, and two of these negated.                              *)
Leading == {Positive(1), Negative(1), Positive(76), Positive(77), Positive(36), Negative(36)}

Adjective(rc) == IF Adj(rc) \in Codes \ Wordless THEN Adj(rc) ELSE 0

(* Nine bits again, but from the code on: the ninth is a user bit.         *)
Type(rc) == Code(rc) + 256 * CodeUnit * (Ubits(rc) % 2)

(* A subject the library has no word for is looked up in the dictionary.   *)
Noun(rc, dictionary) ==
    IF Subject(rc) \in Subjects THEN <<"library", Subject(rc)>>
    ELSE <<dictionary, Subject(rc)>>

Order(rc) ==
    IF Type(rc) \in Leading THEN <<"not", "adjective", "noun">>
    ELSE <<"noun", "not", "adjective">>

Message(rc, dictionary) ==
    [order |-> Order(rc), noun |-> Noun(rc, dictionary), neg |-> NFlag(rc) = 1,
     adjective |-> Adjective(rc), rc |-> rc, error |-> EFlag(rc), ver |-> Ver(rc),
     rev |-> Rev(rc), os |-> Errno(rc), adj |-> Adj(rc), subject |-> Subject(rc),
     code |-> Code(rc), ubits |-> Ubits(rc)]

(* A string is there or not, and holds at most one message.                *)
NoBuffer == [assigned |-> FALSE, text |-> {}]
Blank == [assigned |-> TRUE, text |-> {}]

-----------------------------------------------------------------------------
VARIABLES
    rcs,        \* __rc of each thread
    dict,       \* __dict_cb of each thread: "??" when there is none
    errmsg,     \* __errmsg of each thread: NoBuffer, Blank or a message
    errStatus,  \* whether the process runs, or has aborted or faulted
    said        \* history: the error of each thread, and what became of it

errVars == <<rcs, dict, errmsg, errStatus, said>>

Untold == [err |-> NoError, errno |-> 0, ubits |-> 0, open |-> FALSE]

ErrInit ==
    /\ rcs = [t \in Threads |-> Success]
    /\ dict = [t \in Threads |-> "??"] /\ errmsg = [t \in Threads |-> NoBuffer]
    /\ errStatus = "running" /\ said = [t \in Threads |-> Untold]

(* ina_err_init                                                            *)
InitErrors ==
    /\ errmsg[Starter] = NoBuffer
    /\ errmsg' = [errmsg EXCEPT ![Starter] = Blank]
    /\ UNCHANGED <<rcs, dict, errStatus, said>>

(* INA_ERROR and INA_OS_ERROR: ina_err_set_rc                              *)
SetRc(t) ==
    /\ \E err \in Reported, errno \in Errnos \cup {0} :
          /\ rcs' = [rcs EXCEPT ![t] = Pack(Word(err), errno)]
          /\ said' = [said EXCEPT ![t] =
                        [err |-> err, errno |-> errno, ubits |-> 0, open |-> TRUE]]
    /\ UNCHANGED <<dict, errmsg, errStatus>>

(* ina_err_reset                                                           *)
Reset(t) ==
    /\ rcs' = [rcs EXCEPT ![t] = ClearRc(@)]
    /\ said' = [said EXCEPT ![t].open = FALSE]
    /\ UNCHANGED <<dict, errmsg, errStatus>>

SetUbits(t) ==
    /\ \E ubits \in UserBits :
          /\ rcs' = [rcs EXCEPT ![t] = WithUbits(@, ubits)]
          /\ said' = [said EXCEPT ![t].ubits = ubits]
    /\ UNCHANGED <<dict, errmsg, errStatus>>

RegisterDict(t) ==
    /\ \E cb \in {"??", "client"} : dict' = [dict EXCEPT ![t] = cb]
    /\ UNCHANGED <<rcs, errmsg, errStatus, said>>

(* The string is that of the calling thread: only the one that has called  *)
(* ina_init has any.  The others fault, unless there is nothing to say.    *)
Strerror(t) ==
    /\ \E owner \in Threads :
          LET rc == rcs[owner]
          IN  \/ /\ ~Failed(rc)
                 /\ errmsg' = [errmsg EXCEPT ![t] = IF @ = NoBuffer THEN @ ELSE Blank]
                 /\ UNCHANGED errStatus
              \/ /\ Failed(rc) /\ errmsg[t] # NoBuffer
                 /\ errmsg' = [errmsg EXCEPT ![t].text = {Message(rc, dict[t])}]
                 /\ UNCHANGED errStatus
              \/ /\ Failed(rc) /\ errmsg[t] = NoBuffer
                 /\ errStatus' = "fault" /\ UNCHANGED errmsg
    /\ UNCHANGED <<rcs, dict, said>>

(* INA_MUST_SUCCEED                                                        *)
MustSucceed(t) ==
    /\ Failed(rcs[t])
    /\ errStatus' = "aborted"
    /\ UNCHANGED <<rcs, dict, errmsg, said>>

ErrNext ==
    /\ errStatus = "running"
    /\ \/ InitErrors
       \/ \E t \in Threads : SetRc(t) \/ Reset(t) \/ SetUbits(t) \/ RegisterDict(t)
                                \/ Strerror(t) \/ MustSucceed(t)

ErrSpec == ErrInit /\ [][ErrNext]_errVars

-----------------------------------------------------------------------------
(* Properties.                                                             *)

(* What is left of the error a thread has last set: everything until the   *)
(* next one, whatever was reset or marked meanwhile, and by whomever.      *)
Told(t) ==
    LET rc == rcs[t]
        err == said[t].err
    IN  /\ Failed(rc) <=> said[t].open
        /\ Ubits(rc) = said[t].ubits
        /\ Errno(rc) = said[t].errno
        /\ ErrMsg(rc) = Word(err)
        /\ Adj(rc) = err.code /\ Subject(rc) = err.subject
        /\ (NFlag(rc) = 1) <=> err.neg

(* INA_RC_ERROR gives the reason of the small codes and subjects.          *)
SmallReason(t) ==
    LET err == said[t].err
    IN  err.code < 128 /\ err.subject < NotBit \div 2 => RcError(rcs[t]) = Reason(err)

(* A thread can always tell the error it has last set from its return      *)
(* code, and whether it was handled; the other threads do not interfere.   *)
RcTells == \A t \in Threads : Told(t) /\ SmallReason(t)

(* INA_RC_ERROR gives the reason of every error that was set (manual.md:   *)
(* "We can get access to the reason of failure by INA_RC_ERROR macro", in  *)
(* a switch over the codes).                                               *)
ReasonTold ==
    \A t \in Threads : said[t].open => RcError(rcs[t]) = Reason(said[t].err)
=============================================================================
