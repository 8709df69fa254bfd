-------------------------------- MODULE Requests --------------------------------
(***************************************************************************)
(* The HTTP API over messages, groups, users, profile, newsletters and     *)
(* block list (cmd/server/httpapi_*.go), while the session it works for is *)
(* logged out, paired again or deleted.                                    *)
(*                                                                         *)
(* A handler is the set of programs a request may make it run, one for     *)
(* each way its body chooses a branch: a sequence of steps, each of which  *)
(* may end the request with an answer.  Between two steps other goroutines *)
(* run, and every step reads Session.client again.  What a message, a      *)
(* query or a setting says is left out.                                    *)
(***************************************************************************)
EXTENDS Naturals, Sequences, SequencesExt

CONSTANTS Workers,      \* goroutines of the HTTP server
          Accounts,     \* WhatsApp clients, one of which is Session.client
          Listed        \* bound: ids in one request to the block list

VARIABLES registered,   \* the session is in SessionManager.sessions
          client,       \* Session.client
          online,       \* the clients that are connected
          request       \* what each worker is doing

requestVars == <<registered, client, online, request>>

ASSUME RequestAssumption == Accounts # {} /\ Listed \in Nat

------------------------------------------------------------------------------
(* Steps *)

Session   == <<"session">>            \* sessionByID: 404
Connected == <<"connected">>          \* client.IsConnected: 503
Paired    == <<"paired">>             \* Store.ID: 503
Body      == <<"body">>               \* what the handler decodes and requires: 400
NoBody    == <<"nobody">>             \* the body was read before: 400
Resolve   == <<"resolve">>            \* resolvePhoneJID: 400, or a panic
Ask       == <<"ask">>                \* a query, 500 if it fails
Glance    == <<"glance">>             \* a query whose failure is ignored
Settle    == <<"settle">>             \* 500 if a Try before it failed
Apply(e)  == <<"apply", e>>           \* a change, 500 if it fails
Try(e)    == <<"try", e>>             \* a change whose failure is remembered
Answer(n) == <<"answer", n>>

OK == Answer(200)

NoContent == Answer(204)

NotImplemented == Answer(501)

Tries(es) == [i \in DOMAIN es |-> Try(es[i])]

------------------------------------------------------------------------------
(* Messages *)

Send == <<Resolve, Apply("message"), OK>>

sendMediaFromBody == <<Body, Apply("upload")>> \o Send

sendLocationFromBody == <<Body>> \o Send

sendContactFromBody == <<Body>> \o Send

handleSendText == { <<Session, Connected, Body>> \o Send }

handleSendMedia == { <<Session, Body>> \o sendMediaFromBody }

handleSendLocation == { <<Session, Body>> \o sendLocationFromBody }

handleSendContact == { <<Session, Body>> \o sendContactFromBody }

(* With asText the rows are numbered in a text; otherwise each row is a    *)
(* button, and without any the answer is 400.                              *)
handleSendList ==
  { <<Session, Connected, Body>> \o Send,
    <<Session, Connected, Body, Resolve, Body, Apply("message"), OK>> }

handleSendListInteractive == { <<Session, Connected, Body>> \o Send }

handleSendPoll == { <<Session, Connected, Body>> \o Send }

handleSendReaction == { <<Session, Body>> \o Send }

handleEditMessage == { <<Session, Body>> \o Send }

handleRevokeMessage == { <<Session>> \o Send }

handleMarkRead == { <<Session, Resolve, Apply("read"), NoContent>> }

handleDownloadMedia == { <<Session, Body, Ask, OK>> }

(* The body is read here, so handleSendList, called for the type "list",   *)
(* finds it empty.                                                         *)
handleSendMessage ==
  { <<Session, Connected, Body>> \o rest :
      rest \in { Send, sendMediaFromBody, sendLocationFromBody, sendContactFromBody,
                 <<Session, Connected, NoBody>>, <<Answer(400)>> } }

(* The code is sent as a text, or as a picture of it with the text.        *)
handleSendPix ==
  { <<Session, Connected, Body, Resolve>> \o rest :
      rest \in { <<Apply("message"), OK>>, <<Apply("upload"), Apply("message"), OK>> } }

------------------------------------------------------------------------------
(* Groups *)

handleGetGroups == { <<Session, Ask, OK>> }

handleCreateGroup == { <<Session, Body, Apply("group"), OK>> }

handleGetGroupInfo == { <<Session, Ask, OK>> }

(* A setting that the body may name.                                       *)
Given(e) == {<<>>, <<Try(e)>>}

GroupSettings ==
  { name \o topic \o locked \o announce :
      name \in Given("name"), topic \in Given("topic"),
      locked \in Given("locked"), announce \in Given("announce") }

handleUpdateGroup_Shadowed ==
  { <<Session, Body>> \o settings \o <<NoContent>> : settings \in GroupSettings }

(* Each setting that the body names is tried, whatever became of the       *)
(* others.                                                                 *)
handleUpdateGroup ==
  { <<Session, Body>> \o settings \o <<Settle, NoContent>> : settings \in GroupSettings }

handleLeaveGroup == { <<Session, Apply("leave"), NoContent>> }

handleGetGroupInvite == { <<Session, Ask, OK>> }

handleRevokeGroupInvite == { <<Session, Apply("invite"), OK>> }

handleJoinGroup == { <<Session, Body, Apply("join"), OK>> }

handleUpdateGroupParticipants == { <<Session, Body, Apply("participants"), OK>> }

handlePromoteDemoteGroupParticipants == { <<Session, Body, Apply("participants"), OK>> }

handleGetGroupRequests == { <<Session, Ask, OK>> }

handleApproveGroupRequests == { <<Session, Body, Apply("participants"), OK>> }

(* readImageBytes is its Body.                                             *)
handleSetGroupPhoto == { <<Session, Body, Apply("photo"), OK>> }

handleDeleteGroupPhoto == { <<Session, Apply("photo"), NoContent>> }

------------------------------------------------------------------------------
(* Users, profile, newsletters, block list *)

handleGetUserInfo == { <<Session, Body, Ask, OK>> }

handleSubscribePresence == { <<Session, Apply("presence"), NoContent>> }

handleCheckIsOnWhatsApp == { <<Session, Body, Ask, OK>> }

handleGetContacts == { <<Session, Ask, OK>> }

handleGetContactInfo == { <<Session, Ask, OK>> }

handleGetContactAvatar == { <<Session, Ask, OK>> }

handleSetProfileName == { <<NotImplemented>> }

handleSetProfileStatus == { <<Session, Body, Apply("status"), NoContent>> }

handleSetProfilePhoto == { <<Session, Paired, Body, Apply("photo"), OK>> }

(* The settings are the keys of a map, tried in any order.                 *)
handleSetPrivacySettings ==
  { <<Session, Body>> \o Tries(es) \o <<Settle, NoContent>> :
      es \in UNION { SetToSeqs(named) : named \in SUBSET {"last", "profile"} } }

handleGetPrivacySettings == { <<Session, Glance, OK>> }

handleCreateNewsletter == { <<Session, Body, Apply("newsletter"), OK>> }

handleGetNewsletterInfo == { <<Session, Ask, OK>> }

handleUnfollowNewsletter == { <<Session, Apply("unfollow"), NoContent>> }

handleUpdateNewsletter == { <<NotImplemented>> }

handleMuteNewsletter == { <<Session, Apply("mute"), NoContent>> }

handleGetBlocklist == { <<Session, Ask, OK>> }

(* One change for each id, up to the first that fails.                     *)
handleUpdateBlocklist ==
  { <<Session, Body>> \o [i \in 1..n |-> Apply("block")]
      \o (IF n = 0 THEN <<Glance>> ELSE <<>>) \o <<OK>> : n \in 0..Listed }

routes ==
  UNION { handleSendMessage, handleSendText, handleSendMedia, handleSendLocation,
          handleSendContact, handleSendList, handleSendListInteractive, handleSendPoll,
          handleSendReaction, handleEditMessage, handleRevokeMessage, handleMarkRead,
          handleDownloadMedia, handleSendPix,
          handleGetGroups, handleCreateGroup, handleGetGroupInfo, handleUpdateGroup,
          handleLeaveGroup, handleGetGroupInvite, handleRevokeGroupInvite, handleJoinGroup,
          handleUpdateGroupParticipants, handlePromoteDemoteGroupParticipants,
          handleGetGroupRequests, handleApproveGroupRequests, handleSetGroupPhoto,
          handleDeleteGroupPhoto,
          handleGetUserInfo, handleSubscribePresence, handleCheckIsOnWhatsApp,
          handleGetContacts, handleGetContactInfo, handleGetContactAvatar,
          handleSetProfileName, handleSetProfileStatus, handleSetProfilePhoto,
          handleSetPrivacySettings, handleGetPrivacySettings,
          handleCreateNewsletter, handleGetNewsletterInfo, handleUnfollowNewsletter,
          handleUpdateNewsletter, handleMuteNewsletter,
          handleGetBlocklist, handleUpdateBlocklist }

------------------------------------------------------------------------------
(* Requests *)

Effects == { "message", "upload", "read", "group", "name", "topic", "locked", "announce",
             "leave", "invite", "join", "participants", "photo", "presence", "status",
             "last", "profile", "newsletter", "unfollow", "mute", "block" }

Codes == {200, 204, 400, 401, 404, 500, 501, 503}

NoAnswer == 0

Aborted == 1     \* the handler panicked: net/http closes the connection

RequestTypeOK ==
  /\ registered \in BOOLEAN
  /\ client \in Accounts
  /\ online \subseteq Accounts
  /\ \A w \in Workers :
       /\ request[w].answer \in Codes \cup {NoAnswer, Aborted}
       /\ request[w].failed \in BOOLEAN
       /\ request[w].made \subseteq Effects
       /\ request[w].missed \subseteq Effects

Done(code) == [rest |-> <<>>, failed |-> FALSE, made |-> {}, missed |-> {}, answer |-> code]

RequestInit ==
  /\ registered = TRUE
  /\ client = CHOOSE a \in Accounts : TRUE
  /\ online = {client}
  /\ request = [w \in Workers |-> Done(NoAnswer)]

(* withAuth comes before every handler.                                    *)
Begin(w) ==
  /\ request[w].rest = <<>>
  /\ \/ \E program \in routes :
          request' = [request EXCEPT ![w] = [Done(NoAnswer) EXCEPT !.rest = program]]
     \/ request' = [request EXCEPT ![w] = Done(401)]
  /\ UNCHANGED <<registered, client, online>>

Step(w) == Head(request[w].rest)

At(w, step) == request[w].rest # <<>> /\ Step(w)[1] = step

Go(w)          == request' = [request EXCEPT ![w].rest = Tail(@)]
Reply(w, code) == request' = [request EXCEPT ![w].rest = <<>>, ![w].answer = code]

(* A condition that the handler tests for itself.                          *)
Check(w) ==
  /\ \/ At(w, "session") /\ IF registered THEN Go(w) ELSE Reply(w, 404)
     \/ At(w, "connected") /\ IF client \in online THEN Go(w) ELSE Reply(w, 503)
     \/ At(w, "paired") /\ (Go(w) \/ Reply(w, 503))
     \/ At(w, "body") /\ (Go(w) \/ Reply(w, 400))
     \/ At(w, "nobody") /\ Reply(w, 400)
     \/ At(w, "settle") /\ IF request[w].failed THEN Reply(w, 500) ELSE Go(w)
     \/ At(w, "answer") /\ Reply(w, Step(w)[2])
  /\ UNCHANGED <<registered, client, online>>

(* resolvePhoneJID asks which form of a Brazilian number exists and falls  *)
(* back to one of them.  The text after an @ may be refused; a number that *)
(* is "55" and less than two digits more is sliced past its end.           *)
resolvePhoneJID(w) ==
  /\ At(w, "resolve")
  /\ Go(w) \/ Reply(w, 400) \/ Reply(w, Aborted)
  /\ UNCHANGED <<registered, client, online>>

(* A query of WhatsApp or of the client's store.                           *)
Query(w) ==
  /\ \/ At(w, "ask") /\ (Go(w) \/ Reply(w, 500))
     \/ At(w, "glance") /\ Go(w)
  /\ UNCHANGED <<registered, client, online>>

(* A change made by the client that the session has now.  One that is not  *)
(* connected makes none; the answer of one that is may be lost, and the    *)
(* change made all the same.                                               *)
Succeed(w) ==
  /\ client \in online
  /\ request' = [request EXCEPT ![w].rest = Tail(@), ![w].made = @ \cup {Step(w)[2]}]

Fail(w, made) ==
  LET r == [request[w] EXCEPT !.made = @ \cup made, !.missed = @ \cup {Step(w)[2]}]
  IN IF Step(w)[1] = "apply"
     THEN request' = [request EXCEPT ![w] = [r EXCEPT !.rest = <<>>, !.answer = 500]]
     ELSE request' = [request EXCEPT ![w] = [r EXCEPT !.rest = Tail(@), !.failed = TRUE]]

Change(w) ==
  /\ At(w, "apply") \/ At(w, "try")
  /\ \/ Succeed(w)
     \/ Fail(w, {})
     \/ client \in online /\ Fail(w, {Step(w)[2]})
  /\ UNCHANGED <<registered, client, online>>

(* Logout and Pair give the session another client, Delete takes it out of *)
(* the manager; both disconnect the client it had, and nobody asks whether *)
(* requests are under way.                                                 *)
replaceClient ==
  /\ registered
  /\ client' \in Accounts \ {client}
  /\ online' = online \ {client}
  /\ UNCHANGED <<registered, request>>

Delete ==
  /\ registered
  /\ registered' = FALSE
  /\ online' = {}
  /\ UNCHANGED <<client, request>>

Wire ==
  /\ registered
  /\ online' \in {{}, {client}} \ {online}
  /\ UNCHANGED <<registered, client, request>>

RequestNext ==
  \/ \E w \in Workers : Begin(w) \/ Check(w) \/ resolvePhoneJID(w) \/ Query(w) \/ Change(w)
  \/ replaceClient \/ Delete \/ Wire

------------------------------------------------------------------------------
(* The answer tells what was done: a 2xx, that every change the request    *)
(* asked for was made and acknowledged; a refusal, that none was, but for  *)
(* a file that was uploaded before its recipient was found wrong.  Only a  *)
(* 500 leaves open which of several changes were made.                     *)
AnswersAreTrue ==
  \A w \in Workers :
    /\ request[w].answer \in {200, 204} => request[w].missed = {}
    /\ request[w].answer \in {400, 401, 404, 501, 503, Aborted} => request[w].made \subseteq {"upload"}
==============================================================================
