----------------------------- MODULE MCExchange -----------------------------
(* Small instances of Exchange for TLC.                                    *)
EXTENDS Exchange

CONSTANTS a, b

\* Requests of every kind: in time, torn, pipelined, without a Host, without a
\* length, in origin form, and no request at all.
MixedRequests == [c \in {a, b} |-> IF c = a THEN {<<"get", "host", "blank">>} ELSE {
  <<"get", "close", "host", "other", "blank">>,
  <<"get", "host", "blank", "pathless", "host", "blank">>,
  <<"get", "otherhead", "blank", "host", "blank">>,
  <<"gethead", "tail", "host", "blank">>,
  <<"gethead">>,
  <<"get0", "other", "blank">>,
  <<"path", "keep", "host", "blank">>,
  <<"portless", "host", "blank">>,
  <<"post", "coding", "length", "host", "blank", "body", "body">>,
  <<"post", "host", "blank">>,
  <<"post", "chunked", "blank", "size", "data", "last", "blank">>,
  <<"connect", "host", "blank">>,
  <<"post0", "length", "host", "blank", "body", "body">>,
  <<"head", "host", "blank">>,
  <<"newer">>,
  <<"other">>}]

MixedReplies == [c \in {a, b} |->
  {<<"status", "length", "blank", "body", "body">>,
   <<"status", "chunked", "trailer", "blank", "last", "other", "blank">>} \cup IF c = a THEN {} ELSE {
  <<>>,
  <<"status", "close", "coding", "length", "blank", "body">>,
  <<"status", "empty", "blank">>,
  <<"status", "blank">>,
  <<"status", "other">>,
  <<"status", "chunked", "blank", "size", "data", "last", "blank">>,
  <<"status", "chunked", "blank", "size">>,
  <<"status", "chunked", "blank", "last", "other", "blank">>}]

\* One client, and everything that may keep doit() from returning.
LiveRequests == [c \in {a} |-> {
  <<"gethead", "tail", "host", "blank">>,
  <<"get0", "host", "blank">>,
  <<"post", "length", "blank", "body", "body">>,
  <<"post", "chunked", "blank", "size", "data", "last", "blank">>,
  <<"connect", "host", "blank">>}]
LiveReplies == [c \in {a} |-> {
  <<"status", "length", "blank", "body">>,
  <<"status", "chunked", "blank", "size", "data", "last", "blank">>,
  <<"status", "chunked", "blank", "last", "other", "blank">>}]
=============================================================================
