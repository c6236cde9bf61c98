------------------------------- MODULE Futures -------------------------------
(***************************************************************************)
(* storm::future (pctest/libstorm.h): chains of futures.                   *)
(*                                                                         *)
(* then() makes the successor of a future, except() gives it an error      *)
(* handler, run() on the first future starts the chain.  Everything is     *)
(* synchronous: a future that accepts calls its successor's body, so the   *)
(* bodies and handlers under way are the frames of a call stack.  A body   *)
(* may keep the accept and reject functions it was given and call one of   *)
(* them later.                                                             *)
(*                                                                         *)
(* Values are left out, and with them the difference between bound() and   *)
(* unbound(): both make the first future of a chain.                       *)
(* The modes with one result and with several (SINGLE and MULTI) have the  *)
(* same control; a body without a result is a mode of its own here.  User  *)
(* code calls then() at most once on a future, and all futures live until  *)
(* main() ends, as in pctest/main.cc.                                      *)
(***************************************************************************)
EXTENDS Naturals, Sequences

CONSTANTS
  Futs,      \* Future objects
  NoFut,     \* no future
  Modes,     \* the modes of futures made by then(): a subset of BodyModes
  MaxRuns,   \* bound: calls of run() on the first future of a chain
  MaxCalls,  \* bound: calls of accept and reject by one body
  MaxDepth   \* bound: user code starts bodies only below this stack depth

BodyModes == {"ACC_REJ", "REJ", "REJ_VOID", "PLAIN", "PLAIN_VOID"}

ASSUME FuturesAssumption ==
  /\ NoFut \notin Futs
  /\ Modes \subseteq BodyModes
  /\ MaxRuns \in Nat /\ MaxCalls \in Nat /\ MaxDepth \in Nat

VARIABLES
  mode,        \* futureMode; "none" before the future is made
  nxt,         \* the successor: nxt, and what nxtAccept calls
  nxtForward,  \* what nxtForward calls: "none", "next" or "except"
  errored,     \* Future::errored
  saved,       \* futures whose accept and reject functions user code keeps
  frames,      \* the bodies and handlers under way
  crashed,     \* an empty nxtForward was called: std::bad_function_call
  runs,        \* history: number of calls of run()
  excepted,    \* history: futures on which except() was called
  shadowed     \* history: futures on which then() was called after except()

links == <<mode, nxt, nxtForward>>
notes == <<excepted, shadowed>>
vars == <<links, errored, saved, frames, crashed, runs, notes>>

Init ==
  /\ mode = [f \in Futs |-> "none"]
  /\ nxt = [f \in Futs |-> NoFut]
  /\ nxtForward = [f \in Futs |-> "none"]
  /\ errored = [f \in Futs |-> FALSE]
  /\ saved = {} /\ frames = <<>> /\ crashed = FALSE
  /\ runs = 0 /\ excepted = {} /\ shadowed = {}

Made(f) == mode[f] # "none"

Top == frames[Len(frames)]

Under == SubSeq(frames, 1, Len(frames) - 1)

(* The body of f has control.                                              *)
InBody(f) == frames # <<>> /\ Top.fut = f /\ Top.what = "body"

Started(f) == \E i \in 1..Len(frames) :
                frames[i].fut = f /\ frames[i].what = "body"

(* A call of f's body or of its error handler on top of some frames.       *)
Call(stack, f, what) ==
  Append(stack, [fut |-> f, what |-> what, calls |-> 0, rejected |-> FALSE])

(* if(nxtAccept) nxtAccept(...): the successor's body is called.           *)
Accepts(stack, f) ==
  IF nxt[f] = NoFut THEN stack ELSE Call(stack, nxt[f], "body")

(* The future whose error handler gets an error that f forwards: f's own   *)
(* forwarding target, or its successor's, and so on.                       *)
Catcher ==
  LET at[f \in Futs] ==
        IF nxtForward[f] = "next" THEN at[nxt[f]]
        ELSE IF nxtForward[f] = "except" THEN f ELSE NoFut
  IN at

-----------------------------------------------------------------------------
(* bound() and unbound().                                                  *)
create(f) ==
  /\ ~crashed /\ ~Made(f)
  /\ mode' = [mode EXCEPT ![f] = "FIRST"]
  /\ UNCHANGED <<nxt, nxtForward, errored, saved, frames, crashed, runs, notes>>

(* Mutant: then() binds the new future's functions but does not keep it.   *)
then_unkept(f, g, m) ==
  /\ ~crashed /\ Made(f) /\ nxt[f] = NoFut /\ ~Made(g)
  /\ mode' = [mode EXCEPT ![g] = m]
  /\ nxtForward' = [nxtForward EXCEPT ![f] = "next"]
  /\ shadowed' = IF f \in excepted THEN shadowed \cup {f} ELSE shadowed
  /\ UNCHANGED <<nxt, errored, saved, frames, crashed, runs, excepted>>

(* then(): a new future g becomes the target of both accepted values and   *)
(* forwarded errors; an error handler that f had is no longer called.      *)
then(f, g, m) ==
  /\ ~crashed /\ Made(f) /\ nxt[f] = NoFut /\ ~Made(g)
  /\ mode' = [mode EXCEPT ![g] = m]
  /\ nxt' = [nxt EXCEPT ![f] = g]
  /\ nxtForward' = [nxtForward EXCEPT ![f] = "next"]
  /\ shadowed' = IF f \in excepted THEN shadowed \cup {f} ELSE shadowed
  /\ UNCHANGED <<errored, saved, frames, crashed, runs, excepted>>

(* Mutant: except() does not replace a forwarding function bound before.   *)
except_first(f) ==
  /\ ~crashed /\ Made(f)
  /\ nxtForward' = [nxtForward EXCEPT ![f] = IF @ = "none" THEN "except" ELSE @]
  /\ excepted' = excepted \cup {f}
  /\ shadowed' = shadowed \ {f}
  /\ UNCHANGED <<mode, nxt, errored, saved, frames, crashed, runs>>

(* except(): errors that f forwards go to the new handler.                 *)
except(f) ==
  /\ ~crashed /\ Made(f)
  /\ nxtForward' = [nxtForward EXCEPT ![f] = "except"]
  /\ excepted' = excepted \cup {f}
  /\ shadowed' = shadowed \ {f}
  /\ UNCHANGED <<mode, nxt, errored, saved, frames, crashed, runs>>

(* run() of a first future.                                                *)
run(f) ==
  /\ ~crashed /\ mode[f] = "FIRST"
  /\ runs < MaxRuns /\ Len(frames) < MaxDepth
  /\ runs' = runs + 1
  /\ frames' = Accepts(frames, f)
  /\ UNCHANGED <<links, errored, saved, crashed, notes>>

(* The body of f has control and calls one of its functions itself.        *)
OwnCall(f) == InBody(f) /\ Top.calls < MaxCalls

(* The stack with such a call noted; one through a kept function is not    *)
(* counted.  A reject is noted for every body of f under way, whoever      *)
(* makes the call: errored belongs to the future.                          *)
Noted(f, isReject) ==
  [i \in 1..Len(frames) |->
     [frames[i] EXCEPT
        !.calls = IF i = Len(frames) /\ OwnCall(f) THEN @ + 1 ELSE @,
        !.rejected = @ \/ (isReject /\ frames[i].fut = f /\ frames[i].what = "body")]]

(* User code may call the functions of f: in f's body or, when it kept     *)
(* them, once later.                                                       *)
MayCall(f) == ~crashed /\ Len(frames) < MaxDepth /\ (OwnCall(f) \/ f \in saved)

Spent(f) == saved' = IF OwnCall(f) THEN saved ELSE saved \ {f}

(* acceptfun of an ACC_REJ body.                                           *)
acceptfun(f) ==
  /\ mode[f] = "ACC_REJ" /\ MayCall(f)
  /\ frames' = Accepts(Noted(f, FALSE), f)
  /\ Spent(f)
  /\ UNCHANGED <<links, errored, crashed, runs, notes>>

(* Mutant: reject does not note the error.                                 *)
rejectfun_unnoted(f) ==
  /\ mode[f] \in {"ACC_REJ", "REJ", "REJ_VOID"} /\ MayCall(f)
  /\ IF nxtForward[f] = "none"
       THEN crashed' = TRUE /\ frames' = Noted(f, TRUE)
       ELSE /\ frames' = IF Catcher[f] = NoFut THEN Noted(f, TRUE)
                         ELSE Call(Noted(f, TRUE), Catcher[f], "except")
            /\ UNCHANGED crashed
  /\ Spent(f)
  /\ UNCHANGED <<links, errored, runs, notes>>

(* rejectfun.  nxtReject is never set, so it calls nxtForward without      *)
(* looking whether that is set.  Futures further on do look, and an error  *)
(* that nobody catches ends there.                                         *)
rejectfun(f) ==
  /\ mode[f] \in {"ACC_REJ", "REJ", "REJ_VOID"} /\ MayCall(f)
  /\ errored' = [errored EXCEPT ![f] = @ \/ mode[f] # "ACC_REJ"]
  /\ IF nxtForward[f] = "none"
       THEN crashed' = TRUE /\ frames' = Noted(f, TRUE)
       ELSE /\ frames' = IF Catcher[f] = NoFut THEN Noted(f, TRUE)
                         ELSE Call(Noted(f, TRUE), Catcher[f], "except")
            /\ UNCHANGED crashed
  /\ Spent(f)
  /\ UNCHANGED <<links, runs, notes>>

(* A body keeps its functions for later.                                   *)
save(f) ==
  /\ ~crashed /\ mode[f] \in {"ACC_REJ", "REJ", "REJ_VOID"} /\ OwnCall(f)
  /\ saved' = saved \cup {f}
  /\ frames' = Noted(f, FALSE)
  /\ UNCHANGED <<links, errored, crashed, runs, notes>>

(* Mutant: the result is not passed on after all.                          *)
body_returns_kept ==
  /\ ~crashed /\ frames # <<>>
  /\ frames' = Under
  /\ UNCHANGED <<links, errored, saved, crashed, runs, notes>>

(* A body or handler returns.  callbody() of a body with a result goes on  *)
(* with handle_bodyret(), which starts the successor unless the future has *)
(* rejected; nothing follows a body without one, nor one of mode ACC_REJ.  *)
body_returns ==
  /\ ~crashed /\ frames # <<>>
  /\ frames' = IF /\ Top.what = "body"
                  /\ mode[Top.fut] \in {"REJ", "PLAIN"}
                  /\ ~errored[Top.fut]
                 THEN Accepts(Under, Top.fut)
                 ELSE Under
  /\ UNCHANGED <<links, errored, saved, crashed, runs, notes>>

Next ==
  \/ \E f \in Futs :
       \/ create(f)
       \/ \E g \in Futs, m \in Modes : then(f, g, m)
       \/ except(f)
       \/ run(f)
       \/ acceptfun(f)
       \/ rejectfun(f)
       \/ save(f)
  \/ body_returns

Spec == Init /\ [][Next]_vars

(* Bodies and handlers return.                                             *)
FairSpec == Spec /\ WF_vars(body_returns)

-----------------------------------------------------------------------------
(* Type invariant.                                                         *)
TypeOK ==
  /\ mode \in [Futs -> BodyModes \cup {"FIRST", "none"}]
  /\ nxt \in [Futs -> Futs \cup {NoFut}]
  /\ nxtForward \in [Futs -> {"none", "next", "except"}]
  /\ \A f \in Futs : nxtForward[f] = "next" => nxt[f] # NoFut
  /\ errored \in [Futs -> BOOLEAN]
  /\ saved \subseteq Futs /\ excepted \subseteq Futs
  /\ shadowed \subseteq excepted
  /\ frames \in Seq([fut : Futs, what : {"body", "except"}, calls : 0..MaxCalls,
                     rejected : BOOLEAN])
  /\ crashed \in BOOLEAN /\ runs \in 0..MaxRuns

(* A reject during which a body of the future is under way has left its    *)
(* mark on the future, unless the mode is ACC_REJ, whose bodies return     *)
(* nothing to pass on.                                                     *)
RejectNoted ==
  \A i \in 1..Len(frames) :
    frames[i].what = "body" /\ frames[i].rejected =>
      errored[frames[i].fut] \/ mode[frames[i].fut] = "ACC_REJ"

(* A future has a successor only when both are made; its errors go to its  *)
(* handler just when the handler was bound after then().                   *)
Linked ==
  \A f \in Futs :
    /\ nxt[f] # NoFut => Made(f) /\ Made(nxt[f])
    /\ nxtForward[f] = "none" => nxt[f] = NoFut
    /\ nxtForward[f] = "except" <=> f \in excepted \ shadowed

(* What then() and except() make of a chain, in any order, stays well      *)
(* linked, calls go to real futures, and every reject under way is noted.  *)
FuturesInv == TypeOK /\ RejectNoted /\ Linked

(* The futures from f to the end of its chain, in order.                   *)
ChainFrom ==
  LET chain[f \in Futs] ==
        IF nxt[f] = NoFut THEN <<f>> ELSE <<f>> \o chain[nxt[f]]
  IN chain

(* pctest/main.cc: "You can add an except handler to catch any unhandled   *)
(* rejects earlier in the chain".  Whatever the order in which the chain   *)
(* was put together, also while it runs, an error raised at f goes to the  *)
(* nearest handler behind it; only then() called on a future after its     *)
(* except() takes that future's handler out.  So a handler on the last     *)
(* future of a chain makes it safe: no reject in it is lost or calls an    *)
(* empty nxtForward.                                                       *)
NearestCatches ==
  \A f \in Futs : Made(f) =>
    LET chain == ChainFrom[f]
        active == {i \in 1..Len(chain) : chain[i] \in excepted \ shadowed}
    IN Catcher[f] = IF active = {} THEN NoFut
                    ELSE chain[CHOOSE i \in active : \A j \in active : i <= j]

(* A value is not passed on past a reject: when reject was called on a     *)
(* future while its body is under way - by that body, by one further on or *)
(* a handler, or by another run of the chain nested in it, through the     *)
(* body's own or a kept function - the value that the body returns does    *)
(* not start the successor.  Bodies of mode ACC_REJ return no value; they  *)
(* may call accept and reject both, and the property does not speak of     *)
(* their calls of accept.                                                  *)
RejectedNotAccepted ==
  [][body_returns /\ Top.what = "body" /\ Top.rejected => frames' = Under]_vars

(* A chain gets on: when a body with a result is under way, its successor  *)
(* is started, unless the future has rejected - now or in any earlier run, *)
(* since errored is never reset - or the program died.  And every run      *)
(* comes to its end.                                                       *)
ChainGetsOn ==
  /\ \A f \in Futs :
       (Started(f) /\ mode[f] \in {"REJ", "PLAIN"})
         ~> \/ nxt[f] = NoFut
            \/ Started(nxt[f])
            \/ errored[f]
            \/ crashed
  /\ (frames # <<>>) ~> (frames = <<>> \/ crashed)
=============================================================================
