-------------------------------- MODULE Llm ---------------------------------
(***************************************************************************)
(* llm.py: what becomes of a reply of the language model on its way to the *)
(* shell.  A reply is the content of a completion: its shape says how far  *)
(* it gets as JSON, its text whether a pattern finds it conversational.    *)
(* A simulation is what the shell shows: a text for the command line it    *)
(* was made of, and an exit code.                                          *)
(***************************************************************************)
EXTENDS Integers

CONSTANTS Requests,    \* argument lists of allow-listed programs
          UsageCode    \* exit code of the usage error for each of them

ASSUME UsageAssumption == UsageCode \in [Requests -> 1..255]

Shapes == {"text",      \* no JSON
           "list",      \* JSON, but no object
           "untyped",   \* a stream is no string, or the code no integer
           "object"}

Replies(codes) == [shape : Shapes, text : {"plain", "chatty"}, code : codes]

Simulation(text, q, code) == [text |-> text, of |-> q, code |-> code]

Simulations == [text : {"plain", "usage"}, of : Requests, code : 0..255]

\* format_binary_usage_error: it depends on the arguments alone.
Usage(q) == Simulation("usage", q, UsageCode[q])

\* looks_conversational
Conversational(text) == text = "chatty"

\* parse_llm_simulation, for the command q, of a reply about the command of.
Parse(reply, q, of) ==
    IF /\ reply.shape = "object"
       /\ reply.code \in 0..255
       /\ ~Conversational(reply.text)
    THEN Simulation(reply.text, of, reply.code)
    ELSE Usage(q)

\* sanitize_simulation
Sanitized(sim, q) == IF Conversational(sim.text) THEN Usage(q) ELSE sim

\* coerce_llm_simulation of what GroqProvider.generate_response made of a reply.
Answer(reply, q) == Sanitized(Parse(reply, q, q), q)

\* Mutation: what is shown is kept, and not the JSON it was made of.
KeepRendered(sim) ==
    [shape |-> "text", text |-> sim.text, code |-> sim.code, of |-> sim.of]

\* LLMSimulation.to_json
ToJson(sim) == [shape |-> "object", text |-> sim.text, code |-> sim.code, of |-> sim.of]

\* coerce_llm_simulation of a cached string.
FromJson(json, q) == Parse(json, q, json.of)
=============================================================================
