---------------------------- MODULE MCDefinition ----------------------------
(* Definition for TLC: texts of up to two steps built from small sets of     *)
(* clauses, right and wrong, and a few long ones, with the limits of         *)
(* policy.py.                                                                *)
EXTENDS Definition

LOCAL Short    == [plain |-> 1, odd |-> 0]
LOCAL Escaped  == [plain |-> 0, odd |-> 40000]
LOCAL TooLong  == [plain |-> 65537, odd |-> 0]

LOCAL One(term) == <<[term |-> term, times |-> 1]>>
LOCAL Hello == One(StringLiteral(Short))
LOCAL Asks(term) == Hello \o One(term)

LOCAL Prompt(e)   == [word |-> "prompt", prompt |-> e]
LOCAL Expect(r)   == [word |-> "expect", rules |-> r]
LOCAL Then(t)     == [word |-> "then", target |-> t]
LOCAL Tools(t)    == [word |-> "tools", tools |-> t]
LOCAL Iters(n)    == [word |-> "max_iters", max_iters |-> n]
LOCAL On(l, t)    == [word |-> "on", label |-> l, target |-> t]
LOCAL Else(t)     == [word |-> "else", target |-> t]
LOCAL Junk        == [word |-> "junk"]

LOCAL Rule(kind) == ExpectRule(kind, <<>>, NoPattern, NoLimit)
LOCAL Regex(chars, compiles) ==
  ExpectRule("matches", <<>>, [chars |-> chars, compiles |-> compiles], NoLimit)
LOCAL OneOf(values) == ExpectRule("one_of", values, NoPattern, NoLimit)
LOCAL MaxCharsRule(n) == ExpectRule("max_chars", <<>>, NoPattern, n)

LOCAL yes   == <<"yes", "yes", [plain |-> 3, odd |-> 0]>>
LOCAL Yes   == <<"yes", "YES", [plain |-> 3, odd |-> 0]>>
LOCAL no    == <<"no", "no", [plain |-> 2, odd |-> 0]>>
LOCAL odd   == <<"odd", "odd", Escaped>>
LOCAL long  == <<"long", "long", TooLong>>

LOCAL Body(kind, clauses) == [kind |-> kind, clauses |-> clauses]

\* Clause sets of a body: the right ones, and ones with a clause missing, twice, of
\* another kind of step, or out of its bounds.
LOCAL LlmExtras ==
  {{}, {Then("b")}, {Then(End)}, {Then("a"), Then("b")}, {Then("a")}, {Then("z")},
   {Expect(<<Rule("nonempty")>>)}, {Expect(<<>>)},
   {Expect(<<OneOf(<<yes, no>>)>>), Then("b")}, {Expect(<<OneOf(<<yes, Yes>>)>>)},
   {Expect(<<Regex(10, TRUE), Regex(20, TRUE)>>)}, {Expect(<<Regex(10, FALSE)>>)},
   {Expect(<<Regex(513, TRUE)>>)}, {Expect(<<MaxCharsRule(1)>>)}, {Expect(<<MaxCharsRule(0)>>)},
   {Expect(<<MaxCharsRule(1), MaxCharsRule(2)>>)},
   {Expect(<<Rule("nonempty")>>), Expect(<<MaxCharsRule(1)>>)}, {Tools(<<"search">>)},
   {Expect(<<OneOf(<<yes, odd>>)>>)}, {Expect(<<OneOf(<<long>>)>>)}, {Junk}}
LOCAL AgentExtras ==
  {{}, {Tools(<<"search">>), Iters(1)}, {Tools(<<"search", "search">>)}, {Tools(<<>>)},
   {Tools(<<"search">>), Tools(<<"read">>)}, {Iters(0)}, {Iters(32)}, {Iters(33)},
   {Iters(1), Iters(2)}, {Iters(1), Tools(<<"search">>), Then(End)}, {Else("b")},
   {Expect(<<Rule("nonempty")>>)}}
LOCAL RouteExtras ==
  {{}, {On(yes, "b")}, {On(yes, "b"), On(no, End)}, {On(yes, "b"), On(Yes, End)},
   {On(yes, "a")}, {On(yes, "z")}, {On(yes, End), Else("b")}, {On(yes, End), Else("a")},
   {On(yes, "b"), Else("b"), Else(End)}, {Else("b")}, {On(yes, "b"), Then("b")},
   {On(yes, "b"), Expect(<<Rule("nonempty")>>)},
   {On(yes, "b"), On(odd, End)}, {On(long, "b")}}

LOCAL FirstBodies ==
  {Body("llm", {Prompt(Hello)} \cup x) : x \in LlmExtras}
    \cup {Body("agent", {Prompt(Hello)} \cup x) : x \in AgentExtras}
    \cup {Body("route", {Prompt(Hello)} \cup x) : x \in RouteExtras}
    \cup {Body("llm", {}), Body("agent", {Iters(1)}), Body("route", {On(yes, End)}),
          Body("llm", {Prompt(Hello), Prompt(Asks(InputsRef("i")))})}
    \cup {Body("llm", {Prompt(Asks(t))}) :
            t \in {ContextRef("k"), ContextRef("z"), StepsRef("a", FALSE), StepsRef("b", TRUE)}}

LOCAL SecondBodies ==
  {Body("llm", {Prompt(Asks(StepsRef("a", TRUE)))}),
   Body("agent", {Prompt(Asks(StepsRef("b", FALSE))), Iters(2)}),
   Body("route", {Prompt(Asks(StepsRef("a", FALSE))), On(yes, End), On(no, End)}),
   Body("llm", {Prompt(Hello), Then("a")}),
   Body("route", {Prompt(Hello), On(yes, "b")})}

LOCAL Named(n, b) == [name |-> n, kind |-> b.kind, model |-> Short, clauses |-> b.clauses]

LOCAL EmitText(e) == EmitBlock("text", e, NoText)
LOCAL Entry(n, v) == [name |-> n, value |-> v]

LOCAL Text(context, steps, emit) ==
  [name |-> "t", context |-> context, steps |-> steps, emit |-> emit]

LOCAL K == <<Entry("k", Short)>>

LOCAL BodyTexts ==
  {Text(K, <<Named("a", b), Named("b", c)>>, EmitText(One(StepsRef("b", TRUE)))) :
     b \in FirstBodies, c \in SecondBodies \cup FirstBodies}
    \cup {Text(K, <<Named("a", b)>>, EmitText(Hello)) : b \in FirstBodies}

LOCAL Plain == Body("llm", {Prompt(Hello)})

LOCAL FrameTexts ==
  {Text(context, steps, emit) :
     context \in {<<>>, K, <<Entry("k", Short), Entry("k", Short)>>, <<Entry("k", TooLong)>>},
     steps \in {<<>>, <<Named("a", Plain)>>, <<Named(End, Plain)>>,
                <<Named("a", Plain), Named("a", Plain)>>},
     emit \in {EmitText(Hello), EmitText(Asks(ContextRef("k"))),
               EmitText(Asks(StepsRef("a", FALSE))), EmitBlock("llm", Hello, Short)}}

\* 40,000 empty literals are 120 KB of source and 1.2 MB of IR; 40,000 unknown
\* escapes are 80,000 characters; 100,000 empty literals are too much source.
LOCAL Many(n) == <<[term |-> StringLiteral([plain |-> 0, odd |-> 0]), times |-> n]>>
LOCAL LongText    == Text(<<>>, <<>>, EmitText(Many(40000)))
LOCAL EscapedText == Text(<<Entry("k", Escaped)>>, <<>>, EmitText(Hello))
LOCAL EscapedLabel ==
  Text(<<>>, <<[name |-> "a", kind |-> "route", model |-> Short,
                clauses |-> {Prompt(Hello), On(odd, End)}]>>, EmitText(Hello))
LOCAL LongTexts == {LongText, EscapedText, EscapedLabel, Text(<<>>, <<>>, EmitText(Many(100000)))}

\* A branch that joins again, and an agent; every order of their clauses.
LOCAL Full ==
  Text(K, <<Named("a", Body("route", {Prompt(Asks(ContextRef("k"))), On(yes, "b"), On(no, "c"),
                                      Else(End)})),
            Named("b", Body("llm", {Prompt(Asks(StepsRef("a", FALSE))),
                                    Expect(<<OneOf(<<yes, no>>), Regex(3, TRUE)>>), Then(End)})),
            Named("c", Body("agent", {Prompt(Asks(StepsRef("b", TRUE))), Tools(<<"search">>),
                                      Iters(2)}))>>,
       EmitBlock("llm", Asks(StepsRef("c", TRUE)), Short))

AllTexts      == BodyTexts \cup FrameTexts \cup LongTexts \cup {Full}
RunnableTexts == {Full, LongText, EscapedText, EscapedLabel}
LongOnly      == {LongText, EscapedText, EscapedLabel}

Another == Program("u", <<>>, <<>>, EmitText(Hello))
=============================================================================
