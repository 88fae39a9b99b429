-------------------------------- MODULE Mcp --------------------------------
(***************************************************************************)
(* The MCP server (aiter-server/src/mcp.rs, bin/mcp.rs): lines of JSON-RPC *)
(* on stdin, one answer on stdout for each that wants one.                 *)
(*                                                                         *)
(* The agent may send a number of messages before it looks at an answer;   *)
(* the server handles them one after the other.  A line is                 *)
(*   "call"     a message, with an id or without (a notification);         *)
(*   "garbage"  not JSON, which is answered with an id of null;            *)
(*   "bytes"    not UTF-8, where reading stdin ends in an error, as it     *)
(*              does at its end.                                           *)
(* Blank lines are skipped.  A message that is no call of a known tool     *)
(* with its arguments ("other") is an error.                               *)
(***************************************************************************)
EXTENDS Shop

CONSTANTS
  MaxMessages,   \* bound: messages the agent sends
  ErrorAnswer    \* a JSON-RPC error

ASSUME McpAssumption == MaxMessages \in Nat /\ ErrorAnswer \notin Nat

VARIABLES
  stdin,      \* the lines that are not read yet
  answers,    \* history: all answers, oldest first
  sent,       \* history: all lines, oldest first
  serving     \* whether the loop still reads

mcp == <<stdin, answers, sent, serving>>

\* "initialize" stands for "tools/list" as well.
Tools == {"initialize", "list_products", "get_product", "create_cart",
          "complete_checkout", "other"}

LineType == [kind : {"call", "garbage", "bytes"}, id : Nat \cup {None}, tool : Tools,
             arg : Asked \cup Nat \cup {None}]

Line(kind, id, tool, arg) == [kind |-> kind, id |-> id, tool |-> tool, arg |-> arg]

\* Products are arguments of get_product and create_cart, carts of
\* complete_checkout, whether there is such a cart then or not.
ArgsOf(tool) ==
  CASE tool \in {"get_product", "create_cart"} -> Asked
    [] tool = "complete_checkout"              -> 0..(MaxMessages - 2)
    [] OTHER                                   -> {None}

Lines(n) ==
  (UNION {{Line("call", id, tool, arg) : id \in {n, None}, arg \in ArgsOf(tool)} : tool \in Tools})
    \cup {Line("garbage", None, "other", None), Line("bytes", None, "other", None)}

McpInit == stdin = <<>> /\ answers = <<>> /\ sent = <<>> /\ serving = TRUE

Send ==
  /\ Len(sent) < MaxMessages
  /\ \E line \in Lines(Len(sent) + 1) :
       /\ stdin' = Append(stdin, line)
       /\ sent' = Append(sent, line)
  /\ UNCHANGED <<answers, serving, shop>>
-----------------------------------------------------------------------------
\* Messages without an id are never answered, nor looked at any further.
Wanted(line) == line.kind = "call" /\ line.id # None

Reply(line, result) ==
  /\ stdin' = Tail(stdin)
  /\ answers' = Append(answers, [id |-> line.id, tool |-> line.tool, result |-> result])
  /\ UNCHANGED <<sent, serving>>

Skip(line) ==
  /\ line.kind = "call" /\ ~Wanted(line)
  /\ stdin' = Tail(stdin)
  /\ UNCHANGED <<answers, sent, serving, shop>>

\* The loop breaks, and the process ends.
StopReading(line) ==
  /\ line.kind = "bytes"
  /\ serving' = FALSE
  /\ UNCHANGED <<stdin, answers, sent, shop>>

\* What the tools that only read answer with; list_products is the first page
\* of the feed.
Known(line) ==
  CASE line.tool = "list_products" -> FirstPage.items
    [] line.tool = "get_product"   -> line.arg
    [] OTHER                       -> line.tool

ReadTool(line) ==
  /\ Wanted(line)
  /\ \/ line.tool \in {"initialize", "list_products"}
     \/ line.tool = "get_product" /\ line.arg \in Served
  /\ Reply(line, Known(line))
  /\ UNCHANGED shop

CartTool(line) ==
  /\ Wanted(line) /\ line.tool = "create_cart"
  /\ CreateCart(line.arg)
  /\ Reply(line, nextId)

CheckOutTool(line) ==
  /\ Wanted(line) /\ line.tool = "complete_checkout"
  /\ CheckOut(line.arg, line.id)
  /\ Reply(line, nextId)

\* -32700 for garbage, -32601 and -32602 for what cannot be called, the
\* message of the ApiError for what a tool refuses.
Refused(line) ==
  \/ line.kind = "garbage"
  \/ /\ Wanted(line)
     /\ \/ line.tool = "other"
        \/ line.tool = "get_product" /\ line.arg \notin Served
        \/ line.tool = "create_cart" /\ ~MayCreateCart(line.arg)
        \/ line.tool = "complete_checkout" /\ ~Has(carts, line.arg)

Refuse(line) ==
  /\ Refused(line)
  /\ Reply(line, ErrorAnswer)
  /\ UNCHANGED shop

HandleLine ==
  /\ serving /\ stdin # <<>>
  /\ LET line == Head(stdin)
     IN  \/ Skip(line) \/ StopReading(line) \/ ReadTool(line) \/ CartTool(line)
         \/ CheckOutTool(line) \/ Refuse(line)
=============================================================================
