------------------------------ MODULE Credentials ------------------------------
(***************************************************************************)
(* Where a tunnel comes from: the quick tunnel's API (tunnel/quick), a     *)
(* credentials file or a token (tunnel/named), and what each of them       *)
(* checks.  A text is a class of texts: a field is empty, good, or bad for *)
(* the parser of its kind.                                                 *)
(*                                                                         *)
(* Constant operators; the assumption at the end is what TLC evaluates.    *)
(***************************************************************************)
EXTENDS Naturals

Texts == {"", "good", "bad"}

\* The JSON of any of the three; `whole` is whether it is one.  A field that
\* is left out is empty where serde has a default for it.
Documents ==
  [whole : BOOLEAN, success : BOOLEAN, result : BOOLEAN,
   id : Texts, secret : Texts, account : Texts, hostname : Texts]

Refused == [tunnel |-> FALSE, id |-> "", secret |-> "", account |-> ""]

TunnelOf(document) ==
  [tunnel |-> TRUE, id |-> document.id, secret |-> document.secret,
   account |-> document.account]

\* Base64 of nothing is nothing.
Decodes(secret) == secret # "bad"

\* NamedTunnel::from_credentials_file.
FromCredentialsFile(document) ==
  IF document.whole /\ Decodes(document.secret) /\ document.id # ""
    THEN TunnelOf(document)
    ELSE Refused

\* parse_tunnel_identifier.
IsUuid(id) == id = "good"

\* NamedTunnel::from_token.
FromToken(document) ==
  IF /\ document.whole
     /\ Decodes(document.secret)
     /\ document.account # "" /\ document.secret # ""
     /\ IsUuid(document.id)
    THEN TunnelOf(document)
    ELSE Refused

\* parse_response of the quick tunnel.
ParseResponse(document) ==
  IF /\ document.whole
     /\ document.result => Decodes(document.secret)
     /\ document.success
     /\ document.result
     /\ document.id # "" /\ document.hostname # ""
    THEN TunnelOf(document)
    ELSE Refused

\* No Content-Length, or none that is a number: beyond any length here.
Unstated == 99

\* parse_http_response: a body of so many bytes, cut at Content-Length if that
\* is stated and no more than came.
BodyLength(came, stated) == IF stated <= came THEN stated ELSE came

\* create_quick_tunnel: any status from 300 on is an error; the document of
\* `size` bytes is whole when the body is that and nothing else.
CreateQuickTunnel(status, document, size, came, stated) ==
  IF status >= 300
    THEN Refused
    ELSE ParseResponse([document EXCEPT !.whole = @ /\ BodyLength(came, stated) = size])

\* tunnel_identifier_bytes in register_on_stream.
Registers(tunnel) == tunnel.tunnel /\ IsUuid(tunnel.id)

(***************************************************************************)
(* A token that is accepted can register, and is the tunnel its fields     *)
(* would be in a file.  A file or an answer of the API may be accepted and *)
(* not register: the connector then meets the identifier in each attempt.  *)
(* A response cut short creates no tunnel, and what follows a complete one *)
(* does no harm when its length is stated.                                 *)
(***************************************************************************)
ASSUME CredentialsRegister ==
  /\ \A document \in Documents :
       FromToken(document).tunnel
         => /\ Registers(FromToken(document))
            /\ FromToken(document) = FromCredentialsFile(document)
  /\ \E document \in Documents :
       /\ FromCredentialsFile(document).tunnel /\ ~Registers(FromCredentialsFile(document))
       /\ ParseResponse(document).tunnel /\ ~Registers(ParseResponse(document))
  /\ \A document \in Documents, came \in 0..3, stated \in {2, Unstated} :
       CreateQuickTunnel(200, document, 2, came, stated) =
         IF came = 2 \/ (came > 2 /\ stated = 2) THEN ParseResponse(document) ELSE Refused
=============================================================================
