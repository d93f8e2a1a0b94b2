----------------------------- MODULE HttpMessages -----------------------------
(***************************************************************************)
(* What an HTTP message becomes between the edge and the origin: the       *)
(* metadata of a QUIC stream (serve.rs) and the headers of an HTTP/2 one   *)
(* (h2/headers.rs).  A header is its name and its value, of which only     *)
(* what the code tests is told apart.                                      *)
(*                                                                         *)
(* Constant operators; the assumption at the end is what TLC evaluates.    *)
(***************************************************************************)
EXTENDS Integers, Sequences, SequencesExt

CONSTANT MaxHeaders   \* bound on the headers of a message

ASSUME HttpMessagesConstants == MaxHeaders \in Nat

\* "cf-cloudflared-meta" stands for the prefixes of is_control_response_header.
Names == {"host", "content-length", "x-user", "cf-int-cloudflared-tracing",
          "cf-cloudflared-meta"}

\* "opaque" is a value that is no visible ASCII.
Values == {"some", "other", "", "opaque"}

Header == [name : Names, value : Values]

\* A HeaderMap keeps the values of a name together.
Headers ==
  {list \in BoundedSeq(Header, MaxHeaders) :
     \A i, j, k \in DOMAIN list :
       i < j /\ j < k /\ list[i].name = list[k].name => list[j].name = list[i].name}

\* HeaderValue::to_str, or nothing.
Visible(value) == IF value = "opaque" THEN "" ELSE value

Written(headers) ==
  [i \in DOMAIN headers |-> [headers[i] EXCEPT !.value = Visible(@)]]

\* A metadata entry: its key, the name after HttpHeader, and the value.
Entry(key, name, value) == [key |-> key, name |-> name, value |-> value]

\* encode_response_metadata: every header, whatever its name.
ResponseMetadata(status, headers) ==
  <<Entry("HttpStatus", "", status)>>
    \o [i \in DOMAIN headers |->
          Entry("HttpHeader", headers[i].name, Visible(headers[i].value))]

\* What is chosen of a list, in its order.
AddChosen(list, chosen, header) ==
  IF header \in chosen THEN Append(list, header) ELSE list

Picked(headers, chosen) ==
  LET picked[i \in 0 .. Len(headers)] ==
        IF i = 0 THEN <<>> ELSE AddChosen(picked[i - 1], chosen, headers[i])
  IN picked

Only(headers, chosen) == Picked(headers, chosen)[Len(headers)]

Named(name) == {h \in Header : h.name = name}

\* HeaderMap::insert takes the place of what has the name.
Insert(headers, header) ==
  Append(Only(headers, Header \ Named(header.name)), header)

Methods == {"GET", "PUT"}

\* build_request: HttpHost is inserted, a header appended, and one that is not
\* a header left out; an unknown method is GET.
WithEntry(request, entry) ==
  CASE entry.key = "HttpMethod" ->
         [request EXCEPT !.method = IF entry.value \in Methods THEN entry.value ELSE "GET"]
    [] entry.key = "HttpHost" /\ entry.value # "opaque" ->
         [request EXCEPT !.headers = Insert(@, [name |-> "host", value |-> entry.value])]
    [] entry.key = "HttpHeader" /\ entry.name # "" /\ entry.value # "opaque" ->
         [request EXCEPT !.headers = Append(@, [name |-> entry.name, value |-> entry.value])]
    [] OTHER -> request

Built(metadata) ==
  LET built[i \in 0 .. Len(metadata)] ==
        IF i = 0 THEN [method |-> "GET", headers |-> <<>>]
        ELSE WithEntry(built[i - 1], metadata[i])
  IN built

BuildRequest(metadata) == Built(metadata)[Len(metadata)]

\* What the edge writes for a request.
RequestMetadata(method, host, headers) ==
  <<Entry("HttpMethod", "", method), Entry("HttpHost", "", host)>>
    \o [i \in DOMAIN headers |-> Entry("HttpHeader", headers[i].name, headers[i].value)]

Control == Named("cf-int-cloudflared-tracing") \cup Named("cf-cloudflared-meta")

\* HTTP/2 has no 101.
RemapStatus(status) == IF status = "101" THEN "200" ELSE status

\* encode_response_headers: the user's headers in one, content-length beside
\* them as well, and one tracing header.  Base64 has neither separator of
\* serialize_headers, so the list stands for its text.
ResponseHeaders(status, headers) ==
  LET written == Written(headers)
      tracing == Only(written, Named("cf-int-cloudflared-tracing")) IN
  [status  |-> RemapStatus(status),
   user    |-> Only(written, Header \ Control),
   length  |-> Only(written, Named("content-length")),
   tracing |-> IF tracing = <<>> THEN <<>> ELSE <<Last(tracing)>>]

\* The origin's own headers reach the edge alike over either transport, in
\* their order and with the same values lost, and over HTTP/2 a content-length
\* that HTTP/2 sees is the origin's.  (The edge reads the entries of a response
\* as build_request reads those of a request.)
ResponseSurvives(status, headers) ==
  LET quic == BuildRequest(ResponseMetadata(status, headers)).headers
      h2 == ResponseHeaders(status, headers)
  IN /\ Only(quic, Header \ Control) = h2.user
     /\ h2.length = Only(h2.user, Named("content-length"))

\* The headers that build_request keeps beside the host.
Readable == {h \in Header : h.name # "host" /\ h.value # "opaque"}

\* A request of the edge is read as it was written.
RequestSurvives(method, host, headers) ==
  LET sent == Only(headers, Readable)
  IN BuildRequest(RequestMetadata(method, host, sent)) =
       [method  |-> method,
        headers |-> <<[name |-> "host", value |-> host]>> \o sent]

(***************************************************************************)
(* Both, on every list of up to MaxHeaders headers, where TLC evaluates it *)
(* (RequestsProofs has the theorem of every list).                         *)
(***************************************************************************)
ASSUME MessagesSurvive ==
  \A headers \in Headers :
    /\ ResponseSurvives("101", headers)
    /\ RequestSurvives("PUT", "some", headers)
=============================================================================
