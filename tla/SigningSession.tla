---------------------------- MODULE SigningSession ----------------------------
(***************************************************************************)
(* What the wallet promises about signatures, without radio, screens or    *)
(* tasks: a request is offered for review while the wallet is open, its    *)
(* pages are turned one at a time from the first, and a signature is made  *)
(* only of the request on offer, after its last page was reached.          *)
(***************************************************************************)
EXTENDS Integers

CONSTANTS
  Content,      \* what may be offered
  NoOffer,
  PageCount,    \* pages of each content
  DigestOf,     \* what a signature of each content signs
  NoSignature

VARIABLES open, offer, visited, signature

vars == <<open, offer, visited, signature>>

Pages(c) == 0 .. PageCount[c] - 1

Init ==
  /\ open = FALSE
  /\ offer = NoOffer
  /\ visited = {}
  /\ signature = NoSignature

\* The wallet is unlocked, which may restart the service that remembers the
\* last signature, or locked with whatever was on offer dropped.
Open  == open' = TRUE /\ signature' \in {signature, NoSignature}
         /\ UNCHANGED <<offer, visited>>
Close == open' = FALSE /\ offer' = NoOffer /\ visited' = {} /\ UNCHANGED signature

\* A request is put on offer; it replaces the one under review.
Offer(c) ==
  /\ open
  /\ offer' = c /\ visited' = {0}
  /\ UNCHANGED <<open, signature>>

\* The user turns to a page next to one already seen.
Turn ==
  /\ offer # NoOffer
  /\ \E p \in Pages(offer) :
        /\ \E q \in visited : p = q + 1 \/ q = p + 1
        /\ visited' = visited \cup {p}
  /\ UNCHANGED <<open, offer, signature>>

Withdraw == offer' = NoOffer /\ visited' = {} /\ UNCHANGED <<open, signature>>

Sign ==
  /\ open
  /\ offer # NoOffer
  /\ visited = Pages(offer)
  /\ signature' = DigestOf[offer]
  /\ offer' = NoOffer /\ visited' = {}
  /\ UNCHANGED open

\* The service is restarted and forgets the last signature.
Forget == signature' = NoSignature /\ UNCHANGED <<open, offer, visited>>

Next ==
  \/ Open \/ Close \/ Turn \/ Withdraw \/ Sign \/ Forget
  \/ \E c \in Content : Offer(c)

Spec == Init /\ [][Next]_vars
=============================================================================
