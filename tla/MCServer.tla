------------------------------ MODULE MCServer ------------------------------
(***************************************************************************)
(* Parts of the server with liveness or refinement properties, for TLC:    *)
(* sessions, one-time codes and captchas of one account, a streaming       *)
(* response and the translation of requests and answers.  They share       *)
(* no variable, so they are explored one after the other: each initial     *)
(* state sets one of them in motion and leaves the others where they       *)
(* start.                                                                  *)
(***************************************************************************)
EXTENDS Sessions, OneTimeCodes, WechatCaptcha, Translation

VARIABLE part   \* the component in motion

vars == <<part, sessionVars, codeVars, captchaVars, streamVars, translationVars>>

\* The endpoints that meet on the same rows.
MCWorkloads ==
    {{"login", "rotate", "logout", "logout_all", "change", "verify"},
     {"rotate", "logout_all", "tenant"},
     {"login", "role", "move", "verify"},
     {"login", "rotate", "delete", "reset", "verify"},
     {"login", "move", "tenant"}}

\* Answers of two blocks, of a text and a refusal; each reason a provider gives.
Block(k, x) == [kind |-> k, symbols |-> x]
MCBlocks(kinds, texts) == {Block(k, x) : k \in kinds, x \in texts}
FirstBlocks == MCBlocks({"text", "other"}, {<<>>, <<"a">>, <<"a", "b">>})
SecondBlocks == MCBlocks({"text", "other"}, {<<>>, <<"c", "d">>})
AnthropicBlocks ==
    {<<>>} \cup {<<b>> : b \in FirstBlocks} \cup {<<b, c>> : b \in FirstBlocks, c \in SecondBlocks}
OpenAiBlocks ==
    {x \o y : x \in {<<>>} \cup {<<b>> : b \in MCBlocks({"text"}, {<<>>, <<"a", "b">>})},
              y \in {<<>>} \cup {<<b>> : b \in MCBlocks({"refusal"}, {<<"r", "s">>})}}
Usages == {[input |-> Absent, output |-> Absent], [input |-> 7, output |-> 3]}
AnswerOf(p, bs, s, u) == [protocol |-> p, blocks |-> bs, stop |-> s, input |-> u.input, output |-> u.output]
MCAnswers ==
    {AnswerOf("anthropic", bs, s, u) : bs \in AnthropicBlocks, u \in Usages,
        s \in {"end_turn", "stop_sequence", "max_tokens", "tool_use", "refusal", "none"}}
    \cup {AnswerOf("openai", bs, s, u) : bs \in OpenAiBlocks, u \in Usages,
        s \in {"stop", "length", "content_filter", "tool_calls", "none"}}

\* Instructions, one message of one or two parts of any kind, another text.
MCParts(ids) == {[kind |-> k, id |-> i] : k \in ImageKinds \cup {"text", "audio", "file"}, i \in ids}
MCContents == {<<p>> : p \in MCParts({3})} \cup {<<p, q>> : p \in MCParts({3}), q \in MCParts({4})}
MCRequests ==
    {[instructions |-> x, developer |-> y, input |-> <<[role |-> r, parts |-> c]>> \o z] :
        x \in {<<>>, <<1>>}, y \in {<<>>, <<2>>},
        r \in {"user", "assistant", "system", "developer"}, c \in MCContents,
        z \in {<<>>, Instructed("user", <<5>>)}}

\* Two items with any vectors and indices, or three sound ones.
Vectors ==
    {[form |-> "array", dims |-> d, finite |-> TRUE] : d \in 0 .. 2}
    \cup {[form |-> f, dims |-> 1, finite |-> g] : f \in {"array", "base64", "none"}, g \in BOOLEAN}
Item(v, i, o) == [form |-> v.form, dims |-> v.dims, finite |-> v.finite, index |-> i, of |-> o]
Indices == {BadIndex, Absent} \cup 0 .. 2
Orders(n) == {o \in [1 .. n -> 0 .. n - 1] : \A i, j \in 1 .. n : i # j => o[i] # o[j]}
Sound == {v \in Vectors : v.dims = 1 /\ v.finite /\ v.form # "none"}
MCBatches ==
    {[items |-> <<Item(v, i, o[1]), Item(w, j, o[2])>>, count |-> n, dims |-> d] :
        v \in Vectors, w \in Vectors, i \in Indices, j \in Indices, o \in Orders(2),
        n \in {2}, d \in {Absent, 2}}
    \cup {[items |-> [k \in 1 .. 3 |-> Item(v[k], i[k], o[k])], count |-> n, dims |-> Absent] :
        v \in {[k \in 1 .. 3 |-> x] : x \in Sound}, i \in [1 .. 3 -> Indices], o \in Orders(3),
        n \in {2, 3}}

\* What stands for all where a component is at rest.
RestAnswer == AnswerOf("openai", <<>>, "none", [input |-> 7, output |-> 3])
RestRequest == [instructions |-> <<1>>, developer |-> <<>>, input |-> Instructed("user", <<3>>)]
RestBatch ==
    LET sound == [form |-> "array", dims |-> 1, finite |-> TRUE]
    IN  [items |-> <<Item(sound, Absent, 0), Item(sound, Absent, 1)>>, count |-> 2, dims |-> Absent]

AtRest ==
    /\ part # "sessions" => ops = {"rotate", "logout_all", "tenant"}
    /\ part # "codes" => kind = "reset"
    /\ part # "stream" => protocol = "openai"

Init ==
    /\ part \in {"sessions", "codes", "captcha", "stream", "answers", "requests", "batches"}
    /\ SessionsInit /\ CodesInit /\ CaptchaInit /\ StreamInit
    /\ AtRest
    /\ answer \in IF part = "answers" THEN Answers ELSE {RestAnswer}
    /\ request \in IF part = "requests" THEN ChatRequests ELSE {RestRequest}
    /\ batch \in IF part = "batches" THEN EmbeddingBatches ELSE {RestBatch}
    /\ sent = Unsent /\ heard = Silence

Next ==
    /\ UNCHANGED part
    /\ \/ /\ part = "sessions" /\ SessionsNext
          /\ UNCHANGED <<codeVars, captchaVars, streamVars, translationVars>>
       \/ /\ part = "codes" /\ CodesNext
          /\ UNCHANGED <<sessionVars, captchaVars, streamVars, translationVars>>
       \/ /\ part = "captcha" /\ CaptchaNext
          /\ UNCHANGED <<sessionVars, codeVars, streamVars, translationVars>>
       \/ /\ part = "stream" /\ StreamNext
          /\ UNCHANGED <<sessionVars, codeVars, captchaVars, translationVars>>
       \/ /\ part = "answers" /\ TranslationNext
          /\ UNCHANGED <<sessionVars, codeVars, captchaVars, streamVars>>

\* The fairness of sessions and of streams, where they are in motion.
Fairness ==
    /\ \A p \in Procs : WF_vars(/\ part = "sessions" /\ Step(p)
                                /\ UNCHANGED <<part, ops, codeVars, captchaVars, streamVars,
                                                translationVars>>)
    /\ WF_vars(/\ part = "sessions" /\ ExpireVersion
               /\ UNCHANGED <<part, ops, codeVars, captchaVars, streamVars,
                               translationVars>>)
    /\ WF_streamVars(part = "stream" /\ UpServer)
    /\ WF_streamVars(part = "stream" /\ Translator)

Spec == Init /\ [][Next]_vars /\ Fairness

=============================================================================
