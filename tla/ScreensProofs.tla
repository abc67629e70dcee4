--------------------------- MODULE ScreensProofs ---------------------------
(***************************************************************************)
(* Proofs about Screens, for any set of pages, texts and filters and any   *)
(* number of calls and faults: its types, that a page keeps up with what   *)
(* it asked and changed, that what it reports saved is stored, on which    *)
(* pages typing may be lost, and that duties stay apart.                   *)
(*                                                                         *)
(* The properties hold because of what the tables of Pages say, so the     *)
(* first part reads off the tables what the rest needs: that what pages    *)
(* read changes nothing, which pages fill their form once, which let no    *)
(* answer overtake the one that renews them, and what the controllers      *)
(* grant.  The second part says what each action does to the calls under   *)
(* way; the others prove one invariant each, on top of Base.               *)
(***************************************************************************)
EXTENDS Screens, TLAPS

-----------------------------------------------------------------------------
\* The clients of lib/api.ts.

\* Every call that reads, and every call that sends.
Reading ==
  RfqClient.get \cup ApprovalClient.get \cup LogClient.get
  \cup ExtractionClient.get \cup UserClient.get \cup CatalogueClient.get
  \cup SettingsClient.get \cup ConnectorClient.get
  \cup CustomerClient.get \cup TemplateClient.get \cup RevisionClient.get
  \cup EnrichmentClient.get \cup WebhookClient.get
  \cup AnalyticsClient.get \cup PortalClient.get \cup SignInClient.get

Sending ==
  RfqClient.send \cup ApprovalClient.send \cup LogClient.send
  \cup ExtractionClient.send \cup UserClient.send
  \cup CatalogueClient.send \cup SettingsClient.send
  \cup ConnectorClient.send \cup CustomerClient.send
  \cup TemplateClient.send \cup RevisionClient.send
  \cup EnrichmentClient.send \cup WebhookClient.send
  \cup AnalyticsClient.send \cup PortalClient.send \cup SignInClient.send

\* Every call reads or sends.
LEMMA CallsAreReadOrSent == Calls = Reading \cup Sending
  BY DEF Calls, Reading, Sending, Clients

\* What changes something is sent, and is more than a trial.
LEMMA ChangingAreSent == Changing = Sending \ Trials
<1>1. UNION {k.send : k \in Clients} = Sending
  <2>1. ASSUME NEW c \in UNION {k.send : k \in Clients}
        PROVE  c \in Sending
    <3>1. PICK k \in Clients : c \in k.send
      BY <2>1
    <3> QED  BY <3>1 DEF Clients, Sending
  <2>2. ASSUME NEW c \in Sending
        PROVE  c \in UNION {k.send : k \in Clients}
    <3>1. \E k \in Clients : c \in k.send
      BY DEF Clients, Sending
    <3> QED  BY <3>1
  <2> QED  BY <2>1, <2>2
<1> QED  BY <1>1 DEF Changing

\* No call of lib/api.ts both reads and sends.
LEMMA NoneIsBoth == Reading \cap Sending = {}
  BY SMTT(60) DEF Client, RfqClient, ApprovalClient, LogClient,
       ExtractionClient, UserClient, CatalogueClient, SettingsClient,
       ConnectorClient, CustomerClient, TemplateClient, RevisionClient,
       EnrichmentClient, WebhookClient, AnalyticsClient, PortalClient,
       SignInClient, Reading, Sending

-----------------------------------------------------------------------------
\* The pages.

\* What may become of the answer to a button.
After ==
  {"reload", "clear", "reread", "refill", "close", "keep", "leave", "show"}

Effects(pg) == {pg.does[c] : c \in DOMAIN pg.does}

\* The pages on which an answer overwrites what is typed meanwhile.
Overtyped ==
  {"rfqs", "rfq", "items", "workspace", "webhooks", "modelSettings",
   "slaSettings"}

\* A page reads what changes nothing and sends its form by what changes
\* something; one that reads nothing on opening never reads again.
Sound(pg) ==
  /\ pg.opens \subseteq Calls \ Changing /\ pg.asks \subseteq Calls \ Changing
  /\ DOMAIN pg.does \subseteq Calls /\ Effects(pg) \subseteq After
  /\ pg.form \subseteq Changing \ Rewriting
  /\ pg.opens = {} =>
       /\ pg.traits \cap {"waits", "rerun", "filters"} = {}
       /\ Effects(pg) \cap {"reload", "clear", "reread"} = {}

\* It reads on opening, waits for the answer and never reads anew, but for
\* rereads that leave the form alone.
LoadsOnce(pg) ==
  /\ pg.opens # {} /\ pg.asks = {}
  /\ pg.traits \cap {"filters", "rerun", "free"} = {}
  /\ Effects(pg) \cap {"reload", "clear"} = {}

\* Nothing but the first answer fills its form, before it can be typed in.
FillsOnce(pg) ==
  /\ Effects(pg) \cap {"refill", "clear", "close"} = {}
  /\ "filled" \in pg.traits => LoadsOnce(pg) /\ "early" \notin pg.traits

\* Buttons whose answer renews the screen exclude each other, and no other
\* answer renews it later.
RefillsAlone(pg) ==
  "refill" \in Effects(pg) =>
    /\ LoadsOnce(pg) /\ "reread" \notin Effects(pg)
    /\ \A c, d \in DOMAIN pg.does :
         pg.does[c] = "refill" /\ pg.does[d] = "refill" =>
           c \in At(pg.busy, d, {})

\* What every page reads changes nothing, what its form sends is a change, and a
\* page that reads nothing never reads again.
LEMMA PagesAreSound ==
  ASSUME NEW s \in DOMAIN Screen
  PROVE  Sound(Screen[s])
<1>1. Sound(RfqListPage)
  BY CallsAreReadOrSent, ChangingAreSent, NoneIsBoth DEF Sound, Effects,
       After, Trials, Rewriting, Reading, Sending, RfqListPage, Page, Each,
       Client, RevisionClient, RfqClient
<1>2. Sound(RfqDetailPage)
  BY CallsAreReadOrSent, ChangingAreSent, NoneIsBoth DEF Sound, Effects,
       After, Trials, Rewriting, Reading, Sending, RfqDetailPage, Page,
       QuoteActions, Client, ApprovalClient, CustomerClient, ExtractionClient,
       PortalClient, RevisionClient, RfqClient, TemplateClient, UserClient,
       WebhookClient
<1>3. Sound(QuoteEmailPanel)
  BY CallsAreReadOrSent, ChangingAreSent, NoneIsBoth DEF Sound, Effects,
       After, Trials, Rewriting, Reading, Sending, QuoteEmailPanel, Page,
       Together, Client, ApprovalClient
<1>4. Sound(MatchPanel)
  BY CallsAreReadOrSent, ChangingAreSent, NoneIsBoth DEF Sound, Effects,
       After, Trials, Rewriting, Reading, Sending, MatchPanel, Page, Each,
       Client, ExtractionClient
<1>5. Sound(ItemPanel)
  BY CallsAreReadOrSent, ChangingAreSent, NoneIsBoth DEF Sound, Effects,
       After, Trials, Rewriting, Reading, Sending, ItemPanel, Page, Each,
       Client, ExtractionClient
<1>6. Sound(CatalogueListPage)
  BY CallsAreReadOrSent, ChangingAreSent, NoneIsBoth DEF Sound, Effects,
       After, Trials, Rewriting, Reading, Sending, CatalogueListPage, Page,
       Each, Client, CatalogueClient
<1>7. Sound(ProductPage)
  BY CallsAreReadOrSent, ChangingAreSent, NoneIsBoth DEF Sound, Effects,
       After, Trials, Rewriting, Reading, Sending, ProductPage, Page,
       ProductActions, Client, CatalogueClient, RevisionClient
<1>8. Sound(NewProductPage)
  BY CallsAreReadOrSent, ChangingAreSent, NoneIsBoth DEF Sound, Effects,
       After, Trials, Rewriting, Reading, Sending, NewProductPage, Page, Each,
       Client, CatalogueClient
<1>9. Sound(UploadPage)
  BY CallsAreReadOrSent, ChangingAreSent, NoneIsBoth DEF Sound, Effects,
       After, Trials, Rewriting, Reading, Sending, UploadPage, Page, Each,
       Client, CatalogueClient
<1>10. Sound(EnrichPage)
  BY CallsAreReadOrSent, ChangingAreSent, NoneIsBoth DEF Sound, Effects,
       After, Trials, Rewriting, Reading, Sending, EnrichPage, Page, Each,
       AdminPage, Client, EnrichmentClient
<1>11. Sound(JobsPage)
  BY CallsAreReadOrSent, ChangingAreSent, NoneIsBoth DEF Sound, Effects,
       After, Trials, Rewriting, Reading, Sending, JobsPage, Page, Client,
       SettingsClient
<1>12. Sound(AuditPage)
  BY CallsAreReadOrSent, ChangingAreSent, NoneIsBoth DEF Sound, Effects,
       After, Trials, Rewriting, Reading, Sending, AuditPage, Page, Client,
       LogClient
<1>13. Sound(UsersPage)
  BY CallsAreReadOrSent, ChangingAreSent, NoneIsBoth DEF Sound, Effects,
       After, Trials, Rewriting, Reading, Sending, UsersPage, Page, AdminPage,
       Client, UserClient
<1>14. Sound(NewUserPage)
  BY CallsAreReadOrSent, ChangingAreSent, NoneIsBoth DEF Sound, Effects,
       After, Trials, Rewriting, Reading, Sending, NewUserPage, Page, Each,
       AdminPage, Client, UserClient
<1>15. Sound(CustomersPage)
  BY CallsAreReadOrSent, ChangingAreSent, NoneIsBoth DEF Sound, Effects,
       After, Trials, Rewriting, Reading, Sending, CustomersPage, Page,
       Client, CustomerClient
<1>16. Sound(CustomerPage)
  BY CallsAreReadOrSent, ChangingAreSent, NoneIsBoth DEF Sound, Effects,
       After, Trials, Rewriting, Reading, Sending, CustomerPage, Page, Each,
       Client, CustomerClient
<1>17. Sound(NewCustomerPage)
  BY CallsAreReadOrSent, ChangingAreSent, NoneIsBoth DEF Sound, Effects,
       After, Trials, Rewriting, Reading, Sending, NewCustomerPage, Page,
       Each, Client, CustomerClient
<1>18. Sound(TemplatesPage)
  BY CallsAreReadOrSent, ChangingAreSent, NoneIsBoth DEF Sound, Effects,
       After, Trials, Rewriting, Reading, Sending, TemplatesPage, Page,
       AdminPage, Client, TemplateClient
<1>19. Sound(TemplatePage)
  BY CallsAreReadOrSent, ChangingAreSent, NoneIsBoth DEF Sound, Effects,
       After, Trials, Rewriting, Reading, Sending, TemplatePage, Page, Each,
       AdminPage, Client, TemplateClient
<1>20. Sound(NewTemplatePage)
  BY CallsAreReadOrSent, ChangingAreSent, NoneIsBoth DEF Sound, Effects,
       After, Trials, Rewriting, Reading, Sending, NewTemplatePage, Page,
       Each, AdminPage, Client, TemplateClient
<1>21. Sound(ConnectorsPage)
  BY CallsAreReadOrSent, ChangingAreSent, NoneIsBoth DEF Sound, Effects,
       After, Trials, Rewriting, Reading, Sending, ConnectorsPage, Page,
       AdminPage, Client, ConnectorClient
<1>22. Sound(NewConnectorPage)
  BY CallsAreReadOrSent, ChangingAreSent, NoneIsBoth DEF Sound, Effects,
       After, Trials, Rewriting, Reading, Sending, NewConnectorPage, Page,
       Each, AdminPage, Client, ConnectorClient
<1>23. Sound(ConnectorPage)
  BY CallsAreReadOrSent, ChangingAreSent, NoneIsBoth DEF Sound, Effects,
       After, Trials, Rewriting, Reading, Sending, ConnectorPage, Page, Each,
       AdminPage, Client, ConnectorClient
<1>24. Sound(ModelSettingsPage)
  BY CallsAreReadOrSent, ChangingAreSent, NoneIsBoth DEF Sound, Effects,
       After, Trials, Rewriting, Reading, Sending, ModelSettingsPage, Page,
       Each, AdminPage, Client, SettingsClient
<1>25. Sound(SlaSettingsPage)
  BY CallsAreReadOrSent, ChangingAreSent, NoneIsBoth DEF Sound, Effects,
       After, Trials, Rewriting, Reading, Sending, SlaSettingsPage, Page,
       Each, AdminPage, Client, RevisionClient
<1>26. Sound(WorkspacePage)
  BY CallsAreReadOrSent, ChangingAreSent, NoneIsBoth DEF Sound, Effects,
       After, Trials, Rewriting, Reading, Sending, WorkspacePage, Page, Each,
       AdminPage, Client, SignInClient, WebhookClient
<1>27. Sound(WebhooksPage)
  BY CallsAreReadOrSent, ChangingAreSent, NoneIsBoth DEF Sound, Effects,
       After, Trials, Rewriting, Reading, Sending, WebhooksPage, Page, Each,
       AdminPage, Client, WebhookClient
<1>28. Sound(AnalyticsPage)
  BY CallsAreReadOrSent, ChangingAreSent, NoneIsBoth DEF Sound, Effects,
       After, Trials, Rewriting, Reading, Sending, AnalyticsPage, Page,
       Client, AnalyticsClient
<1>29. Sound(MetricsPage)
  BY CallsAreReadOrSent, ChangingAreSent, NoneIsBoth DEF Sound, Effects,
       After, Trials, Rewriting, Reading, Sending, MetricsPage, Page, Client,
       AnalyticsClient, LogClient, RfqClient
<1>30. Sound(SetupPage)
  BY CallsAreReadOrSent, ChangingAreSent, NoneIsBoth DEF Sound, Effects,
       After, Trials, Rewriting, Reading, Sending, SetupPage, Page, AdminPage,
       Client, EnrichmentClient
<1>31. Sound(BillingPage)
  BY CallsAreReadOrSent, ChangingAreSent, NoneIsBoth DEF Sound, Effects,
       After, Trials, Rewriting, Reading, Sending, BillingPage, Page, Each,
       AdminPage, Client, PortalClient
<1>32. Sound(LoginPage)
  BY CallsAreReadOrSent, ChangingAreSent, NoneIsBoth DEF Sound, Effects,
       After, Trials, Rewriting, Reading, Sending, LoginPage, Page, Each,
       VisitorPage, Client, SignInClient
<1>33. Sound(SignUpPage)
  BY CallsAreReadOrSent, ChangingAreSent, NoneIsBoth DEF Sound, Effects,
       After, Trials, Rewriting, Reading, Sending, SignUpPage, Page, Each,
       VisitorPage, Client, SignInClient
<1>34. Sound(ForgotPage)
  BY CallsAreReadOrSent, ChangingAreSent, NoneIsBoth DEF Sound, Effects,
       After, Trials, Rewriting, Reading, Sending, ForgotPage, Page, Each,
       VisitorPage, Client, UserClient
<1>35. Sound(ResetPage)
  BY CallsAreReadOrSent, ChangingAreSent, NoneIsBoth DEF Sound, Effects,
       After, Trials, Rewriting, Reading, Sending, ResetPage, Page, Each,
       VisitorPage, Client, UserClient
<1>36. Sound(InvitePage)
  BY CallsAreReadOrSent, ChangingAreSent, NoneIsBoth DEF Sound, Effects,
       After, Trials, Rewriting, Reading, Sending, InvitePage, Page, Each,
       VisitorPage, Client, SignInClient
<1>37. Sound(PortalPage)
  BY CallsAreReadOrSent, ChangingAreSent, NoneIsBoth DEF Sound, Effects,
       After, Trials, Rewriting, Reading, Sending, PortalPage, Page,
       PortalAnswers, Together, VisitorPage, Client, PortalClient
<1>38. Sound(MergePanel)
  BY CallsAreReadOrSent, ChangingAreSent, NoneIsBoth DEF Sound, Effects,
       After, Trials, Rewriting, Reading, Sending, MergePanel, Page, Each,
       Client, CustomerClient
<1> QED
  BY <1>1, <1>2, <1>3, <1>4, <1>5, <1>6, <1>7, <1>8, <1>9, <1>10, <1>11,
       <1>12, <1>13, <1>14, <1>15, <1>16, <1>17, <1>18, <1>19, <1>20, <1>21,
       <1>22, <1>23, <1>24, <1>25, <1>26, <1>27, <1>28, <1>29, <1>30, <1>31,
       <1>32, <1>33, <1>34, <1>35, <1>36, <1>37, <1>38 DEF Screen

\* All pages but seven fill their form at most once, before it can be typed in.
LEMMA PagesFillOnce ==
  ASSUME NEW s \in DOMAIN Screen, s \notin Overtyped
  PROVE  FillsOnce(Screen[s])
<1>1. FillsOnce(QuoteEmailPanel)
  BY DEF FillsOnce, LoadsOnce, Effects, QuoteEmailPanel, Page, Together
<1>2. FillsOnce(MatchPanel)
  BY DEF FillsOnce, LoadsOnce, Effects, MatchPanel, Page, Each
<1>3. FillsOnce(MergePanel)
  BY DEF FillsOnce, LoadsOnce, Effects, MergePanel, Page, Each
<1>4. FillsOnce(CatalogueListPage)
  BY DEF FillsOnce, LoadsOnce, Effects, CatalogueListPage, Page, Each
<1>5. FillsOnce(ProductPage)
  BY DEF FillsOnce, LoadsOnce, Effects, ProductPage, Page, ProductActions
<1>6. FillsOnce(NewProductPage)
  BY DEF FillsOnce, LoadsOnce, Effects, NewProductPage, Page, Each
<1>7. FillsOnce(UploadPage)
  BY DEF FillsOnce, LoadsOnce, Effects, UploadPage, Page, Each
<1>8. FillsOnce(EnrichPage)
  BY DEF FillsOnce, LoadsOnce, Effects, EnrichPage, Page, Each, AdminPage
<1>9. FillsOnce(JobsPage)
  BY DEF FillsOnce, LoadsOnce, Effects, JobsPage, Page
<1>10. FillsOnce(AuditPage)
  BY DEF FillsOnce, LoadsOnce, Effects, AuditPage, Page
<1>11. FillsOnce(UsersPage)
  BY DEF FillsOnce, LoadsOnce, Effects, UsersPage, Page, AdminPage
<1>12. FillsOnce(NewUserPage)
  BY DEF FillsOnce, LoadsOnce, Effects, NewUserPage, Page, Each, AdminPage
<1>13. FillsOnce(CustomersPage)
  BY DEF FillsOnce, LoadsOnce, Effects, CustomersPage, Page
<1>14. FillsOnce(CustomerPage)
  BY DEF FillsOnce, LoadsOnce, Effects, CustomerPage, Page, Each
<1>15. FillsOnce(NewCustomerPage)
  BY DEF FillsOnce, LoadsOnce, Effects, NewCustomerPage, Page, Each
<1>16. FillsOnce(TemplatesPage)
  BY DEF FillsOnce, LoadsOnce, Effects, TemplatesPage, Page, AdminPage
<1>17. FillsOnce(TemplatePage)
  BY DEF FillsOnce, LoadsOnce, Effects, TemplatePage, Page, Each, AdminPage
<1>18. FillsOnce(NewTemplatePage)
  BY DEF FillsOnce, LoadsOnce, Effects, NewTemplatePage, Page, Each, AdminPage
<1>19. FillsOnce(ConnectorsPage)
  BY DEF FillsOnce, LoadsOnce, Effects, ConnectorsPage, Page, AdminPage
<1>20. FillsOnce(NewConnectorPage)
  BY DEF FillsOnce, LoadsOnce, Effects, NewConnectorPage, Page, Each,
       AdminPage
<1>21. FillsOnce(ConnectorPage)
  BY DEF FillsOnce, LoadsOnce, Effects, ConnectorPage, Page, Each, AdminPage
<1>22. FillsOnce(AnalyticsPage)
  BY DEF FillsOnce, LoadsOnce, Effects, AnalyticsPage, Page
<1>23. FillsOnce(MetricsPage)
  BY DEF FillsOnce, LoadsOnce, Effects, MetricsPage, Page
<1>24. FillsOnce(SetupPage)
  BY DEF FillsOnce, LoadsOnce, Effects, SetupPage, Page, AdminPage
<1>25. FillsOnce(BillingPage)
  BY DEF FillsOnce, LoadsOnce, Effects, BillingPage, Page, Each, AdminPage
<1>26. FillsOnce(LoginPage)
  BY DEF FillsOnce, LoadsOnce, Effects, LoginPage, Page, Each, VisitorPage
<1>27. FillsOnce(SignUpPage)
  BY DEF FillsOnce, LoadsOnce, Effects, SignUpPage, Page, Each, VisitorPage
<1>28. FillsOnce(ForgotPage)
  BY DEF FillsOnce, LoadsOnce, Effects, ForgotPage, Page, Each, VisitorPage
<1>29. FillsOnce(ResetPage)
  BY DEF FillsOnce, LoadsOnce, Effects, ResetPage, Page, Each, VisitorPage
<1>30. FillsOnce(InvitePage)
  BY DEF FillsOnce, LoadsOnce, Effects, InvitePage, Page, Each, VisitorPage
<1>31. FillsOnce(PortalPage)
  BY DEF FillsOnce, LoadsOnce, Effects, PortalPage, Page, PortalAnswers,
       Together, VisitorPage
<1> QED
  BY <1>1, <1>2, <1>3, <1>4, <1>5, <1>6, <1>7, <1>8, <1>9, <1>10, <1>11,
       <1>12, <1>13, <1>14, <1>15, <1>16, <1>17, <1>18, <1>19, <1>20, <1>21,
       <1>22, <1>23, <1>24, <1>25, <1>26, <1>27, <1>28, <1>29, <1>30, <1>31
       DEF Screen, Overtyped

\* All pages but the RFQ page let no other call renew the screen while a button
\* whose answer does is under way.
LEMMA PagesRefillAlone ==
  ASSUME NEW s \in DOMAIN Screen, s \notin {"rfq"}
  PROVE  RefillsAlone(Screen[s])
<1>1. RefillsAlone(RfqListPage)
  BY DEF RefillsAlone, LoadsOnce, Effects, At, RfqListPage, Page, Each
<1>2. RefillsAlone(QuoteEmailPanel)
  BY DEF RefillsAlone, LoadsOnce, Effects, At, QuoteEmailPanel, Page, Together
<1>3. RefillsAlone(MatchPanel)
  BY DEF RefillsAlone, LoadsOnce, Effects, At, MatchPanel, Page, Each
<1>4. RefillsAlone(ItemPanel)
  BY DEF RefillsAlone, LoadsOnce, Effects, At, ItemPanel, Page, Each
<1>5. RefillsAlone(CatalogueListPage)
  BY DEF RefillsAlone, LoadsOnce, Effects, At, CatalogueListPage, Page, Each
<1>6. RefillsAlone(ProductPage)
  BY DEF RefillsAlone, LoadsOnce, Effects, At, ProductPage, Page,
       ProductActions
<1>7. RefillsAlone(NewProductPage)
  BY DEF RefillsAlone, LoadsOnce, Effects, At, NewProductPage, Page, Each
<1>8. RefillsAlone(UploadPage)
  BY DEF RefillsAlone, LoadsOnce, Effects, At, UploadPage, Page, Each
<1>9. RefillsAlone(EnrichPage)
  BY DEF RefillsAlone, LoadsOnce, Effects, At, EnrichPage, Page, Each,
       AdminPage
<1>10. RefillsAlone(JobsPage)
  BY DEF RefillsAlone, LoadsOnce, Effects, At, JobsPage, Page
<1>11. RefillsAlone(AuditPage)
  BY DEF RefillsAlone, LoadsOnce, Effects, At, AuditPage, Page
<1>12. RefillsAlone(UsersPage)
  BY DEF RefillsAlone, LoadsOnce, Effects, At, UsersPage, Page, AdminPage
<1>13. RefillsAlone(NewUserPage)
  BY DEF RefillsAlone, LoadsOnce, Effects, At, NewUserPage, Page, Each,
       AdminPage
<1>14. RefillsAlone(CustomersPage)
  BY DEF RefillsAlone, LoadsOnce, Effects, At, CustomersPage, Page
<1>15. RefillsAlone(CustomerPage)
  BY DEF RefillsAlone, LoadsOnce, Effects, At, CustomerPage, Page, Each
<1>16. RefillsAlone(NewCustomerPage)
  BY DEF RefillsAlone, LoadsOnce, Effects, At, NewCustomerPage, Page, Each
<1>17. RefillsAlone(TemplatesPage)
  BY DEF RefillsAlone, LoadsOnce, Effects, At, TemplatesPage, Page, AdminPage
<1>18. RefillsAlone(TemplatePage)
  BY DEF RefillsAlone, LoadsOnce, Effects, At, TemplatePage, Page, Each,
       AdminPage
<1>19. RefillsAlone(NewTemplatePage)
  BY DEF RefillsAlone, LoadsOnce, Effects, At, NewTemplatePage, Page, Each,
       AdminPage
<1>20. RefillsAlone(ConnectorsPage)
  BY DEF RefillsAlone, LoadsOnce, Effects, At, ConnectorsPage, Page, AdminPage
<1>21. RefillsAlone(NewConnectorPage)
  BY DEF RefillsAlone, LoadsOnce, Effects, At, NewConnectorPage, Page, Each,
       AdminPage
<1>22. RefillsAlone(ConnectorPage)
  BY DEF RefillsAlone, LoadsOnce, Effects, At, ConnectorPage, Page, Each,
       AdminPage
<1>23. RefillsAlone(ModelSettingsPage)
  BY DEF RefillsAlone, LoadsOnce, Effects, At, ModelSettingsPage, Page, Each,
       AdminPage
<1>24. RefillsAlone(SlaSettingsPage)
  BY DEF RefillsAlone, LoadsOnce, Effects, At, SlaSettingsPage, Page, Each,
       AdminPage
<1>25. RefillsAlone(WorkspacePage)
  BY DEF RefillsAlone, LoadsOnce, Effects, At, WorkspacePage, Page, Each,
       AdminPage
<1>26. RefillsAlone(WebhooksPage)
  BY DEF RefillsAlone, LoadsOnce, Effects, At, WebhooksPage, Page, Each,
       AdminPage
<1>27. RefillsAlone(AnalyticsPage)
  BY DEF RefillsAlone, LoadsOnce, Effects, At, AnalyticsPage, Page
<1>28. RefillsAlone(MetricsPage)
  BY DEF RefillsAlone, LoadsOnce, Effects, At, MetricsPage, Page
<1>29. RefillsAlone(SetupPage)
  BY DEF RefillsAlone, LoadsOnce, Effects, At, SetupPage, Page, AdminPage
<1>30. RefillsAlone(BillingPage)
  BY DEF RefillsAlone, LoadsOnce, Effects, At, BillingPage, Page, Each,
       AdminPage
<1>31. RefillsAlone(LoginPage)
  BY DEF RefillsAlone, LoadsOnce, Effects, At, LoginPage, Page, Each,
       VisitorPage
<1>32. RefillsAlone(SignUpPage)
  BY DEF RefillsAlone, LoadsOnce, Effects, At, SignUpPage, Page, Each,
       VisitorPage
<1>33. RefillsAlone(ForgotPage)
  BY DEF RefillsAlone, LoadsOnce, Effects, At, ForgotPage, Page, Each,
       VisitorPage
<1>34. RefillsAlone(ResetPage)
  BY DEF RefillsAlone, LoadsOnce, Effects, At, ResetPage, Page, Each,
       VisitorPage
<1>35. RefillsAlone(InvitePage)
  BY DEF RefillsAlone, LoadsOnce, Effects, At, InvitePage, Page, Each,
       VisitorPage
<1>36. RefillsAlone(PortalPage)
  BY DEF RefillsAlone, LoadsOnce, Effects, At, PortalPage, Page,
       PortalAnswers, Together, VisitorPage
<1>37. RefillsAlone(MergePanel)
  BY DEF RefillsAlone, LoadsOnce, Effects, At, MergePanel, Page, Each
<1> QED
  BY <1>1, <1>2, <1>3, <1>4, <1>5, <1>6, <1>7, <1>8, <1>9, <1>10, <1>11,
       <1>12, <1>13, <1>14, <1>15, <1>16, <1>17, <1>18, <1>19, <1>20, <1>21,
       <1>22, <1>23, <1>24, <1>25, <1>26, <1>27, <1>28, <1>29, <1>30, <1>31,
       <1>32, <1>33, <1>34, <1>35, <1>36, <1>37 DEF Screen

-----------------------------------------------------------------------------
\* The routes.

\* What only an administrator may do.
Reserved ==
  {"createUser", "updateUser", "deactivateUser", "createConnector",
   "updateConnector", "deleteConnector", "updateLlmSetting",
   "updateSlaConfig", "updateWorkspace", "createProduct", "updateProduct",
   "deleteProduct", "uploadCatalogue", "deleteCustomer", "assignRfq"}

\* A reserved call is not among them, and submitting and approving have each
\* a role of their own.
Apart(r, c) ==
  /\ c \notin Reserved
  /\ c = "submitQuote" => r = "quote_operator"
  /\ c = "approveQuote" => r = "sales_approver"

\* No controller lets anybody else make a reserved call, and none lets one of
\* them both submit a quote and approve it.
LEMMA RoutesAreApart ==
  ASSUME NEW r \in (Staff \cup {"visitor"}) \ Admins, NEW c \in Calls,
         <<r, c>> \in Routes
  PROVE  Apart(r, c)
<1>1. ASSUME <<r, c>> \in RfqRoutes PROVE Apart(r, c)
  BY <1>1 DEF RfqRoutes, Apart, Reserved, By, Open, Public, Staff, Admins
<1>2. ASSUME <<r, c>> \in RfqQuoteRoutes PROVE Apart(r, c)
  BY <1>2 DEF RfqQuoteRoutes, Apart, Reserved, By, Open, Public, Staff, Admins
<1>3. ASSUME <<r, c>> \in QuoteRoutes PROVE Apart(r, c)
  BY <1>3 DEF QuoteRoutes, Apart, Reserved, By, Open, Public, Staff, Admins
<1>4. ASSUME <<r, c>> \in QuoteEmailRoutes PROVE Apart(r, c)
  BY <1>4 DEF QuoteEmailRoutes, Apart, Reserved, By, Open, Public, Staff,
       Admins
<1>5. ASSUME <<r, c>> \in AuditRoutes PROVE Apart(r, c)
  BY <1>5 DEF AuditRoutes, Apart, Reserved, By, Open, Public, Staff, Admins
<1>6. ASSUME <<r, c>> \in RunRoutes PROVE Apart(r, c)
  BY <1>6 DEF RunRoutes, Apart, Reserved, By, Open, Public, Staff, Admins
<1>7. ASSUME <<r, c>> \in UserRoutes PROVE Apart(r, c)
  BY <1>7 DEF UserRoutes, Apart, Reserved, By, Open, Public, Staff, Admins
<1>8. ASSUME <<r, c>> \in CatalogueRoutes PROVE Apart(r, c)
  BY <1>8 DEF CatalogueRoutes, Apart, Reserved, By, Open, Public, Staff,
       Admins
<1>9. ASSUME <<r, c>> \in JobRoutes PROVE Apart(r, c)
  BY <1>9 DEF JobRoutes, Apart, Reserved, By, Open, Public, Staff, Admins
<1>10. ASSUME <<r, c>> \in SettingsRoutes PROVE Apart(r, c)
  BY <1>10 DEF SettingsRoutes, Apart, Reserved, By, Open, Public, Staff,
       Admins
<1>11. ASSUME <<r, c>> \in ConnectorRoutes PROVE Apart(r, c)
  BY <1>11 DEF ConnectorRoutes, Apart, Reserved, By, Open, Public, Staff,
       Admins
<1>12. ASSUME <<r, c>> \in OAuth2Routes PROVE Apart(r, c)
  BY <1>12 DEF OAuth2Routes, Apart, Reserved, By, Open, Public, Staff, Admins
<1>13. ASSUME <<r, c>> \in CustomerRoutes PROVE Apart(r, c)
  BY <1>13 DEF CustomerRoutes, Apart, Reserved, By, Open, Public, Staff,
       Admins
<1>14. ASSUME <<r, c>> \in TemplateRoutes PROVE Apart(r, c)
  BY <1>14 DEF TemplateRoutes, Apart, Reserved, By, Open, Public, Staff,
       Admins
<1>15. ASSUME <<r, c>> \in SlaRoutes PROVE Apart(r, c)
  BY <1>15 DEF SlaRoutes, Apart, Reserved, By, Open, Public, Staff, Admins
<1>16. ASSUME <<r, c>> \in SetupRoutes PROVE Apart(r, c)
  BY <1>16 DEF SetupRoutes, Apart, Reserved, By, Open, Public, Staff, Admins
<1>17. ASSUME <<r, c>> \in WebhookRoutes PROVE Apart(r, c)
  BY <1>17 DEF WebhookRoutes, Apart, Reserved, By, Open, Public, Staff, Admins
<1>18. ASSUME <<r, c>> \in WorkspaceRoutes PROVE Apart(r, c)
  BY <1>18 DEF WorkspaceRoutes, Apart, Reserved, By, Open, Public, Staff,
       Admins
<1>19. ASSUME <<r, c>> \in AnalyticsRoutes PROVE Apart(r, c)
  BY <1>19 DEF AnalyticsRoutes, Apart, Reserved, By, Open, Public, Staff,
       Admins, AnalyticsClient, Client
<1>20. ASSUME <<r, c>> \in BillingRoutes PROVE Apart(r, c)
  BY <1>20 DEF BillingRoutes, Apart, Reserved, By, Open, Public, Staff, Admins
<1>21. ASSUME <<r, c>> \in PortalRoutes PROVE Apart(r, c)
  BY <1>21 DEF PortalRoutes, Apart, Reserved, By, Open, Public, Staff, Admins
<1>22. ASSUME <<r, c>> \in AuthRoutes PROVE Apart(r, c)
  BY <1>22 DEF AuthRoutes, Apart, Reserved, By, Open, Public, Staff, Admins
<1> QED
  BY <1>1, <1>2, <1>3, <1>4, <1>5, <1>6, <1>7, <1>8, <1>9, <1>10, <1>11,
       <1>12, <1>13, <1>14, <1>15, <1>16, <1>17, <1>18, <1>19, <1>20, <1>21,
       <1>22 DEF Routes

-----------------------------------------------------------------------------
\* The type invariant, and where calls come from.

Reply == {"none", "ok", "failed", "expired"}

\* What a call under way looks like.
CallType ==
  [no : Nat, of : SUBSET Calls, after : Loads \cup After, filter : Filter,
   text : Texts, alone : BOOLEAN, reply : Reply, rev : Nat, back : Texts]

Button(m) == \E c \in DOMAIN p.does : m.of = {c} /\ m.after = p.does[c]
Load(m) == m.after \in Loads /\ m.of \in {p.opens, p.asks}

\* A call under way comes from one of the page's buttons or is a reading of the
\* page, and knows no version the API has not reached.
Formed(m) ==
  /\ m \in CallType /\ m.no \in 1..sent /\ m.of # {}
  /\ Load(m) \/ Button(m)
  /\ m.rev <= stored.rev

\* Calls are numbered as they are made.
Numbered == \A m, n \in calls : m.no = n.no => m = n

Base ==
  /\ TypeOK
  /\ sent \in Nat /\ latest \in 0..sent /\ shown.no <= sent
  /\ own \in Nat /\ own <= stored.rev
  /\ \A m \in calls : Formed(m)
  /\ Numbered

-----------------------------------------------------------------------------
\* What the actions do to the calls.

\* The page and its user stay what they are.
LEMMA PageStays ==
  ASSUME [Next]_vars
  PROVE  UNCHANGED <<screen, p, role>>
  BY DEF Next, vars, user, page, net, hist, RoleKnown, Search, Expire,
         OtherWrites, Type, ChangeFilter, Click, Serve, Fail, ArriveLoad,
         ArriveWrite, ArriveFailed, ArriveExpired

\* The record of the page is one of the table's.
LEMMA PageIsSound ==
  ASSUME TypeOK
  PROVE  Sound(p) /\ screen \in DOMAIN Screen /\ p = Screen[screen]
  BY PagesAreSound, ScreensAssumption DEF TypeOK

\* The fields of a new call.
New(c, of, after, f) ==
  /\ c \in CallType /\ c.no = sent + 1 /\ c.of = of /\ c.after = after
  /\ c.filter = f /\ c.alone = TRUE /\ c.reply = "none" /\ c.rev = 0
  /\ c.text = IF of \cap p.form = {} THEN "" ELSE draft

\* Call makes them so.
LEMMA CallFields ==
  ASSUME TypeOK, sent \in Nat, NEW of \in SUBSET Calls,
         NEW after \in Loads \cup After, NEW f \in Filter
  PROVE  New(Call(sent + 1, of, after, f), of, after, f)
<1> DEFINE text == IF of \cap p.form = {} THEN "" ELSE draft
           c == Call(sent + 1, of, after, f)
<1>1. "" \in Texts /\ text \in Texts
  BY ScreensAssumption DEF TypeOK, Texts
<1>2. c = [no |-> sent + 1, of |-> of, after |-> after, filter |-> f,
           text |-> text, alone |-> TRUE, reply |-> "none", rev |-> 0,
           back |-> ""]
  BY DEF Call
<1>3. sent + 1 \in Nat
  OBVIOUS
<1> HIDE DEF text, c
<1>4. c \in CallType
  BY <1>1, <1>2, <1>3 DEF CallType, Reply
<1>5. New(c, of, after, f)
  BY <1>2, <1>4 DEF New, text
<1> QED  BY <1>5 DEF c

\* Two calls that differ in no more than being alone.
Same(n, m) ==
  /\ n.no = m.no /\ n.of = m.of /\ n.after = m.after /\ n.filter = m.filter
  /\ n.text = m.text /\ n.reply = m.reply /\ n.rev = m.rev

\* A write made near the calls under way leaves them as they are, but for the
\* ones that send the form: they are not alone.
LEMMA CrowdedFields ==
  ASSUME calls \subseteq CallType
  PROVE  /\ Crowded \subseteq CallType
         /\ \A n \in Crowded : /\ \E m \in calls : Same(n, m)
                               /\ n.alone = (n.of \cap p.form = {})
<1>1. ASSUME NEW m \in calls
      PROVE  LET n == [m EXCEPT !.alone = m.of \cap p.form = {}] IN
             /\ n \in CallType /\ Same(n, m)
             /\ n.alone = (n.of \cap p.form = {})
  BY DEF CallType, Same
<1>2. ASSUME NEW n \in Crowded
      PROVE  /\ n \in CallType /\ n.alone = (n.of \cap p.form = {})
             /\ \E m \in calls : Same(n, m)
  <2>1. PICK m \in calls : n = [m EXCEPT !.alone = m.of \cap p.form = {}]
    BY DEF Crowded
  <2> QED  BY <2>1, <1>1
<1> QED  BY <1>2

\* ... and no two of them fall together.
LEMMA CrowdedNumbered ==
  ASSUME calls \subseteq CallType, \A i, j \in calls : i.no = j.no => i = j,
         NEW k \in Crowded, NEW l \in Crowded, k.no = l.no
  PROVE  k = l
<1>1. PICK i \in calls : k = [i EXCEPT !.alone = i.of \cap p.form = {}]
  BY DEF Crowded
<1>2. PICK j \in calls : l = [j EXCEPT !.alone = j.of \cap p.form = {}]
  BY DEF Crowded
<1>3. i.no = k.no /\ j.no = l.no
  BY <1>1, <1>2 DEF CallType
<1> QED  BY <1>1, <1>2, <1>3

\* The API's step on a call, which then has its answer.
Answered(m, a) ==
  /\ m.reply = "none" /\ a.reply # "none"
  /\ a \in CallType /\ calls' = (calls \ {m}) \cup {a}
  /\ a.no = m.no /\ a.of = m.of /\ a.after = m.after /\ a.filter = m.filter
  /\ a.text = m.text /\ a.alone = m.alone /\ a.rev = stored'.rev
  /\ \/ /\ UNCHANGED <<stored, did>>
        /\ a.reply = "ok" => m.of \cap Changing = {}
     \/ /\ m.of \cap Changing # {} /\ CanActivate(Who, m.of)
        /\ stored' = Written(m) /\ did' = did \cup m.of
  /\ UNCHANGED <<session, page, sent, latest, own, said, carried, lost>>

\* What is written is again a record.
LEMMA WrittenFields ==
  ASSUME TypeOK, NEW m \in CallType
  PROVE  /\ Written(m) \in [rev : Nat, text : Texts]
         /\ Written(m).rev = stored.rev + 1
         /\ Written(m).text =
              IF m.of \cap Rewriting # {} THEN "made"
              ELSE IF m.of \cap p.form = {} THEN stored.text
              ELSE IF m.text = "" /\ Has("omits") THEN stored.text
              ELSE m.text
<1> DEFINE text == IF m.of \cap Rewriting # {} THEN "made"
                   ELSE IF m.of \cap p.form = {} THEN stored.text
                   ELSE IF m.text = "" /\ Has("omits") THEN stored.text
                   ELSE m.text
<1>1. stored.rev \in Nat /\ stored.text \in Texts /\ m.text \in Texts
  BY DEF TypeOK, CallType
<1>2. text \in Texts
  BY <1>1 DEF Texts
<1>3. Written(m) = [rev |-> stored.rev + 1, text |-> text]
  BY DEF Written
<1>4. stored.rev + 1 \in Nat
  BY <1>1
<1> HIDE DEF text
<1>5. Written(m) \in [rev : Nat, text : Texts] /\ Written(m).rev = stored.rev + 1
      /\ Written(m).text = text
  BY <1>2, <1>3, <1>4
<1> QED  BY <1>5 DEF text

\* The API's step, with or without an answer on its way, is such a step.
LEMMA AnswerFields ==
  ASSUME Base, NEW m \in calls, Serve(m) \/ Fail(m)
  PROVE  \E a : Answered(m, a)
<1>1. m \in CallType /\ m.reply = "none"
  BY DEF Base, Formed, Serve, Fail
<1>2. PICK r \in {"ok", "failed", "expired"} :
        /\ Answer(m, r)
        /\ \/ /\ UNCHANGED <<stored, did>>
              /\ r = "ok" => m.of \cap Changing = {}
           \/ /\ m.of \cap Changing # {} /\ CanActivate(Who, m.of)
              /\ stored' = Written(m) /\ did' = did \cup m.of
  BY DEF Serve, Fail, Effect
<1>3. stored' \in [rev : Nat, text : Texts]
  BY <1>1, <1>2, WrittenFields DEF Base, TypeOK
<1> DEFINE a == [m EXCEPT !.reply = r, !.rev = stored'.rev,
                          !.back = IF Fill(m) THEN stored'.text ELSE ""]
<1>4. "" \in Texts
  BY ScreensAssumption DEF Texts
<1>5. /\ a \in CallType /\ a.no = m.no /\ a.of = m.of /\ a.after = m.after
      /\ a.filter = m.filter /\ a.text = m.text /\ a.alone = m.alone
      /\ a.rev = stored'.rev /\ a.reply = r
  BY <1>1, <1>3, <1>4 DEF CallType, Reply
<1>6. calls' = (calls \ {m}) \cup {a}
  BY <1>2 DEF Answer
<1>7. UNCHANGED <<session, page, sent, latest, own, said, carried, lost>>
  BY DEF Serve, Fail, page
<1> QED
  <2> HIDE DEF a
  <2> QED  BY <1>1, <1>2, <1>5, <1>6, <1>7 DEF Answered

\* The page reads: on opening, on a search, or as a filter changes.
Reads(c, of) ==
  /\ of \in {p.opens, p.asks} /\ of # {} /\ New(c, of, "load", filter')
  /\ calls' = calls \cup {c}
  /\ sent' = sent + 1 /\ latest' = sent + 1 /\ carried' = FALSE

Asking == RoleKnown \/ Search \/ \E f \in Filter : ChangeFilter(f)

\* What asking leaves alone, and the three things it may do to the calls.
LEMMA AskingFields ==
  ASSUME Base, Asking
  PROVE  /\ UNCHANGED <<user, session, draft, typed, shown, stored, own, said,
                        lost, did>>
         /\ filter' \in Filter
         /\ \/ /\ UNCHANGED <<calls, sent, latest, carried>>
               /\ filter' = filter \/ ~Has("filters")
            \/ calls' = {} /\ UNCHANGED <<sent, latest, carried, filter>>
            \/ \E c, of : Reads(c, of)
<1>1. Sound(p) /\ sent \in Nat /\ filter \in Filter
  BY PageIsSound DEF Base, TypeOK
<1>2. ASSUME NEW of \in {p.opens, p.asks}, of # {}, NEW f \in Filter
      PROVE  New(Call(sent + 1, of, "load", f), of, "load", f)
  BY <1>1, <1>2, CallFields DEF Base, Sound, Loads
<1>3. CASE RoleKnown
  <2>1. UNCHANGED <<user, session, draft, typed, shown, stored, own, said,
                    lost, did, filter>>
    BY <1>3 DEF RoleKnown
  <2>2. CASE UNCHANGED <<loading, net, carried>>
    BY <2>1, <2>2, <1>1 DEF net
  <2>3. CASE /\ Has("waits") \/ Has("rerun")
             /\ Ask(calls, p.opens, "load", filter)
    <3>1. p.opens # {}
      BY <1>1, <2>3 DEF Sound, Has
    <3>2. Reads(Call(sent + 1, p.opens, "load", filter), p.opens)
      BY <3>1, <1>1, <1>2, <2>1, <2>3 DEF Reads, Ask
    <3> QED  BY <3>2, <2>1, <1>1
  <2>4. CASE calls' = {} /\ UNCHANGED <<sent, latest, carried>>
    BY <2>1, <2>4, <1>1
  <2> QED  BY <1>3, <2>2, <2>3, <2>4 DEF RoleKnown
<1>4. CASE Search
  <2>1. UNCHANGED <<user, session, draft, typed, shown, stored, own, said,
                    lost, did, filter>>
    BY <1>4 DEF Search
  <2>2. Reads(Call(sent + 1, p.asks, "load", filter), p.asks)
    BY <1>1, <1>2, <1>4, <2>1 DEF Search, Reads, Ask
  <2> QED  BY <2>1, <2>2, <1>1
<1>5. ASSUME NEW f \in Filter, ChangeFilter(f)
      PROVE  \/ /\ UNCHANGED <<calls, sent, latest, carried>>
                /\ ~Has("filters")
             \/ \E c, of : Reads(c, of)
  <2>1. CASE Has("filters")
    <3>1. p.opens # {}
      BY <1>1, <2>1 DEF Sound, Has
    <3>2. Reads(Call(sent + 1, p.opens, "load", f), p.opens)
      BY <3>1, <1>1, <1>2, <1>5, <2>1 DEF Reads, ChangeFilter
    <3> QED  BY <3>2
  <2> QED  BY <1>5, <2>1 DEF ChangeFilter, net
<1>6. ASSUME NEW f \in Filter, ChangeFilter(f)
      PROVE  UNCHANGED <<user, session, draft, typed, shown, stored, own, said,
                         lost, did>> /\ filter' \in Filter
  BY <1>6 DEF ChangeFilter
<1> QED  BY <1>3, <1>4, <1>5, <1>6 DEF Asking

\* What becomes of the calls when the answer to a button arrives.
Renews(m, c) ==
  /\ m.after \in {"reload", "clear", "reread"} /\ p.opens # {}
  /\ New(c, p.opens, IF m.after = "reread" THEN "again" ELSE "load", m.filter)
  /\ calls' = (calls \ {m}) \cup {c}
  /\ sent' = sent + 1 /\ latest' = sent + 1 /\ carried' = (m.filter # filter)

\* The page then reads again, or the calls just lose that one.
LEMMA ArriveFields ==
  ASSUME Base, NEW m \in calls, ArriveWrite(m)
  PROVE  \/ /\ calls' = calls \ {m} /\ UNCHANGED <<sent, latest, carried>>
            /\ m.after \notin {"reload", "clear", "reread"}
         \/ \E c : Renews(m, c)
<1>1. Sound(p) /\ sent \in Nat /\ Formed(m)
  BY PageIsSound DEF Base
<1>2. m.filter \in Filter
  BY <1>1 DEF Formed, CallType
<1>3. CASE m.after \in {"reload", "clear", "reread"}
  <2>1. \E c \in DOMAIN p.does : m.after = p.does[c]
    BY <1>1, <1>3 DEF Formed, Load, Button, Loads
  <2>2. p.opens # {} /\ p.opens \in SUBSET Calls
    BY <1>1, <1>3, <2>1 DEF Sound, Effects
  <2> DEFINE after == IF m.after = "reread" THEN "again" ELSE "load"
  <2>3. Ask(calls \ {m}, p.opens, after, m.filter)
    BY <1>3 DEF ArriveWrite
  <2>4. New(Call(sent + 1, p.opens, after, m.filter), p.opens, after, m.filter)
    BY <1>1, <1>2, <2>2, CallFields DEF Base, Loads
  <2>5. Renews(m, Call(sent + 1, p.opens, after, m.filter))
    BY <1>3, <2>2, <2>3, <2>4 DEF Renews, Ask
  <2> QED  BY <2>5
<1>4. CASE m.after \notin {"reload", "clear", "reread"}
  BY <1>4 DEF ArriveWrite, NoAsk
<1> QED  BY <1>3, <1>4

\* What a button adds to the calls.
Sends(c, k) ==
  /\ k \in CallType /\ k.no = sent + 1 /\ k.of = {c} /\ k.after = p.does[c]
  /\ k.filter = filter /\ k.reply = "none" /\ k.rev = 0
  /\ c \in p.form /\ k.alone => ~\E m \in calls : Writes(m.of)
  /\ calls' = (IF Writes({c}) THEN Crowded ELSE calls) \cup {k}
  /\ sent' = sent + 1
  /\ latest' = IF p.does[c] = "refill" THEN sent + 1 ELSE latest

\* A click adds just that.
LEMMA ClickFields ==
  ASSUME Base, NEW c \in DOMAIN p.does, Click(c)
  PROVE  \E k : Sends(c, k)
<1> DEFINE call == Call(sent + 1, {c}, p.does[c], filter)
           alone == c \in p.form => ~\E m \in calls : Writes(m.of)
           mine == [call EXCEPT !.alone = alone]
<1>1. /\ calls' = (IF Writes({c}) THEN Crowded ELSE calls) \cup {mine}
      /\ sent' = sent + 1
      /\ latest' = IF p.does[c] = "refill" THEN sent + 1 ELSE latest
  BY DEF Click
<1>2. {c} \in SUBSET Calls /\ p.does[c] \in Loads \cup After
  BY PageIsSound DEF Base, Sound, Effects
<1>3. New(call, {c}, p.does[c], filter)
  BY <1>2, CallFields DEF Base, TypeOK
<1>4. alone \in BOOLEAN
  OBVIOUS
<1>5. c \in p.form /\ alone => ~\E m \in calls : Writes(m.of)
  OBVIOUS
<1> HIDE DEF call, alone
<1>6. /\ mine \in CallType /\ mine.no = sent + 1 /\ mine.of = {c}
      /\ mine.after = p.does[c] /\ mine.filter = filter
      /\ mine.reply = "none" /\ mine.rev = 0 /\ mine.alone = alone
  BY <1>3, <1>4 DEF New, CallType
<1> HIDE DEF mine
<1> QED  BY <1>1, <1>5, <1>6 DEF Sends

-----------------------------------------------------------------------------
\* The base is an invariant.

\* A call that was formed stays so as the counters move on.
LEMMA FormedStays ==
  ASSUME [Next]_vars, NEW m, Formed(m), sent \in Nat, stored.rev \in Nat,
         sent' \in Nat, sent' >= sent,
         stored'.rev \in Nat, stored'.rev >= stored.rev
  PROVE  Formed(m)'
<1>1. p' = p
  BY PageStays
<1>2. m.rev \in Nat /\ m.no \in 1..sent'
  BY DEF Formed, CallType
<1> QED  BY <1>1, <1>2 DEF Formed, Load, Button, Loads

\* So does the invariant, where the calls are old ones and at most one that
\* is formed and has a number of its own.
LEMMA OneMoreCall ==
  ASSUME Base, [Next]_vars, NEW rest, NEW c,
         rest \subseteq calls, calls' \subseteq rest \cup {c}, Formed(c)',
         \A m \in rest : m.no # c.no,
         sent' \in Nat, sent' >= sent,
         stored'.rev \in Nat, stored'.rev >= stored.rev
  PROVE  (\A m \in calls' : Formed(m)') /\ Numbered'
<1>1. \A m \in rest : Formed(m)'
  BY FormedStays DEF Base, TypeOK
<1>2. Numbered'
  BY DEF Base, Numbered
<1> QED  BY <1>1, <1>2

\* A new call is formed.
LEMMA NewIsFormed ==
  ASSUME Base, [Next]_vars, NEW c, NEW of, NEW after, NEW f,
         New(c, of, after, f), of # {},
         \/ after \in Loads /\ of \in {p.opens, p.asks}
         \/ \E d \in DOMAIN p.does : of = {d} /\ after = p.does[d],
         sent' = sent + 1, stored' = stored
  PROVE  Formed(c)' /\ \A m \in calls : m.no # c.no
<1>1. p' = p
  BY PageStays
<1>2. sent \in Nat /\ stored.rev \in Nat
  BY DEF Base, TypeOK
<1>3. c.no = sent + 1 /\ c.rev = 0 /\ c.of # {} /\ c \in CallType
  BY DEF New
<1>4. c.no \in 1..sent' /\ c.rev <= stored'.rev
  BY <1>2, <1>3
<1>5. (Load(c) \/ Button(c))'
  BY <1>1 DEF New, Load, Button, Loads
<1>6. \A m \in calls : m.no \in 1..sent
  BY DEF Base, Formed
<1>7. \A m \in calls : m.no # c.no
  BY <1>2, <1>3, <1>6
<1> QED  BY <1>3, <1>4, <1>5, <1>7 DEF Formed

\* The calls stay formed.
LEMMA CallsStayFormed ==
  ASSUME Base, [Next]_vars
  PROVE  /\ (\A m \in calls' : Formed(m)') /\ Numbered'
         /\ sent' \in Nat /\ latest' \in 0..sent' /\ sent' >= sent
         /\ stored' \in [rev : Nat, text : Texts]
         /\ stored'.rev >= stored.rev
<1>1. /\ sent \in Nat /\ latest \in 0..sent /\ calls \subseteq CallType
      /\ stored \in [rev : Nat, text : Texts] /\ stored.rev \in Nat
  BY DEF Base, TypeOK, Formed
<1>2. Sound(p) /\ p' = p
  BY PageIsSound, PageStays DEF Base
<1>3. ASSUME calls' \subseteq calls, UNCHANGED <<sent, latest, stored>>
      PROVE  /\ (\A m \in calls' : Formed(m)') /\ Numbered'
             /\ sent' \in Nat /\ latest' \in 0..sent' /\ sent' >= sent
             /\ stored' \in [rev : Nat, text : Texts]
             /\ stored'.rev >= stored.rev
  <2>1. \A m \in calls' : Formed(m)'
    BY <1>1, <1>3, FormedStays DEF Base
  <2> QED  BY <1>1, <1>3, <2>1 DEF Base, Numbered
<1>4. CASE Asking
  <2>1. UNCHANGED stored
    BY <1>4, AskingFields
  <2>2. ASSUME NEW c, NEW of, Reads(c, of)
        PROVE  /\ (\A m \in calls' : Formed(m)') /\ Numbered'
               /\ sent' \in Nat /\ latest' \in 0..sent' /\ sent' >= sent
    <3>1. Formed(c)' /\ \A m \in calls : m.no # c.no
      BY <2>1, <2>2, NewIsFormed DEF Reads, Loads
    <3>2. sent' \in Nat /\ sent' >= sent /\ latest' \in 0..sent'
      BY <1>1, <2>2 DEF Reads
    <3>3. calls' \subseteq calls \cup {c}
      BY <2>2 DEF Reads
    <3>4. stored'.rev \in Nat /\ stored'.rev >= stored.rev
      BY <1>1, <2>1
    <3> QED  BY <3>1, <3>2, <3>3, <3>4, OneMoreCall
  <2> QED  BY <1>1, <1>3, <1>4, <2>1, <2>2, AskingFields
<1>5. ASSUME NEW c \in DOMAIN p.does, Click(c)
      PROVE  /\ (\A m \in calls' : Formed(m)') /\ Numbered'
             /\ sent' \in Nat /\ latest' \in 0..sent' /\ sent' >= sent
             /\ stored' = stored
  <2>1. PICK new : Sends(c, new)
    BY <1>5, ClickFields
  <2> DEFINE rest == IF Writes({c}) THEN Crowded ELSE calls
  <2>2. UNCHANGED stored
    BY <1>5 DEF Click
  <2>3. sent' = sent + 1 /\ latest' \in {latest, sent + 1}
    BY <2>1 DEF Sends
  <2>4. calls' = rest \cup {new} /\ new \in CallType /\ new.no = sent + 1
        /\ new.of = {c} /\ new.after = p.does[c] /\ new.rev = 0
    BY <2>1 DEF Sends
  <2> HIDE DEF rest
  <2>5. Formed(new)'
    <3>1. new.no \in 1..sent' /\ new.rev <= stored'.rev
      BY <1>1, <2>2, <2>3, <2>4
    <3>2. Button(new)'
      BY <1>2, <1>5, <2>4 DEF Button
    <3> QED  BY <2>4, <3>1, <3>2 DEF Formed
  <2>6. /\ rest \subseteq CallType
        /\ \A n \in rest : \E m \in calls : Same(n, m)
        /\ \A k, l \in rest : k.no = l.no => k = l
    <3>1. CASE rest = calls
      BY <1>1, <3>1 DEF Same, Base, Numbered
    <3>2. CASE rest = Crowded
      BY <1>1, <3>2, CrowdedFields, CrowdedNumbered DEF Base, Numbered
    <3> QED  BY <3>1, <3>2 DEF rest
  <2>7. ASSUME NEW n \in rest PROVE Formed(n)' /\ n.no \in 1..sent
    <3>1. PICK m \in calls : Same(n, m)
      BY <2>6
    <3>2. Formed(m)
      BY DEF Base
    <3> QED  BY <1>1, <1>2, <2>2, <2>3, <2>6, <3>1, <3>2
             DEF Formed, Same, Load, Button, Loads
  <2>8. Numbered'
    BY <1>1, <2>4, <2>6, <2>7 DEF Numbered
  <2> QED  BY <1>1, <2>2, <2>3, <2>4, <2>5, <2>7, <2>8
<1>6. ASSUME NEW m \in calls, Serve(m) \/ Fail(m)
      PROVE  /\ (\A n \in calls' : Formed(n)') /\ Numbered'
             /\ UNCHANGED <<sent, latest>>
             /\ stored' \in [rev : Nat, text : Texts]
             /\ stored'.rev >= stored.rev
  <2>1. PICK a : Answered(m, a)
    BY <1>6, AnswerFields
  <2>2. UNCHANGED <<sent, latest>>
    BY <2>1 DEF Answered
  <2>3. Formed(m) /\ m \in CallType
    BY DEF Base, Formed
  <2>4. stored' \in [rev : Nat, text : Texts] /\ stored'.rev >= stored.rev
    <3>1. stored' = stored \/ stored' = Written(m)
      BY <2>1 DEF Answered
    <3>2. /\ Written(m) \in [rev : Nat, text : Texts]
          /\ Written(m).rev = stored.rev + 1
      BY <2>3, WrittenFields DEF Base
    <3> QED  BY <1>1, <3>1, <3>2
  <2>5. Formed(a)'
    BY <1>2, <2>1, <2>2, <2>3, <2>4 DEF Answered, Formed, Load, Button, Loads
  <2>6. \A n \in calls \ {m} : n.no # a.no
    BY <2>1 DEF Answered, Base, Numbered
  <2>7. calls' \subseteq (calls \ {m}) \cup {a} /\ stored'.rev \in Nat
        /\ sent' \in Nat /\ sent' >= sent
    BY <1>1, <2>1, <2>2, <2>4 DEF Answered
  <2> QED  BY <1>1, <2>2, <2>4, <2>5, <2>6, <2>7, OneMoreCall
<1>7. CASE OtherWrites
  <2>1. calls' = Crowded /\ UNCHANGED <<sent, latest>>
        /\ stored' = [rev |-> stored.rev + 1, text |-> "theirs"]
    BY <1>7 DEF OtherWrites
  <2>2. stored' \in [rev : Nat, text : Texts] /\ stored'.rev = stored.rev + 1
    BY <1>1, <2>1 DEF Texts
  <2>3. ASSUME NEW n \in Crowded PROVE Formed(n)'
    <3>1. PICK m \in calls : Same(n, m)
      BY <1>1, CrowdedFields
    <3>2. Formed(m) /\ n \in CallType
      BY <1>1, CrowdedFields DEF Base
    <3>3. n.rev <= stored'.rev
      BY <1>1, <2>2, <3>1, <3>2 DEF Same, Formed, CallType
    <3> QED  BY <1>2, <2>1, <3>1, <3>2, <3>3
             DEF Formed, Same, Load, Button, Loads
  <2>4. Numbered'
    BY <1>1, <2>1, CrowdedNumbered DEF Base, Numbered
  <2> QED  BY <1>1, <2>1, <2>2, <2>3, <2>4
<1>8. ASSUME NEW m \in calls, ArriveWrite(m)
      PROVE  /\ (\A n \in calls' : Formed(n)') /\ Numbered'
             /\ sent' \in Nat /\ latest' \in 0..sent' /\ sent' >= sent
             /\ stored' = stored
  <2>1. UNCHANGED stored
    BY <1>8 DEF ArriveWrite
  <2>2. CASE calls' = calls \ {m} /\ UNCHANGED <<sent, latest>>
    BY <1>1, <1>3, <2>1, <2>2
  <2>3. ASSUME NEW c, Renews(m, c)
        PROVE  /\ (\A n \in calls' : Formed(n)') /\ Numbered'
               /\ sent' \in Nat /\ latest' \in 0..sent' /\ sent' >= sent
    <3>1. Formed(c)' /\ \A n \in calls : n.no # c.no
      BY <2>1, <2>3, NewIsFormed DEF Renews, Loads
    <3>2. sent' \in Nat /\ sent' >= sent /\ latest' \in 0..sent'
      BY <1>1, <2>3 DEF Renews
    <3>3. calls' = (calls \ {m}) \cup {c}
      BY <2>3 DEF Renews
    <3>4. stored'.rev \in Nat /\ stored'.rev >= stored.rev
      BY <1>1, <2>1
    <3>5. \A n \in calls \ {m} : n.no # c.no
      BY <3>1
    <3> QED  BY <3>1, <3>2, <3>3, <3>4, <3>5, OneMoreCall
  <2> QED  BY <1>8, <2>1, <2>2, <2>3, ArriveFields
<1>9. ASSUME NEW m \in calls,
             ArriveLoad(m) \/ ArriveFailed(m) \/ ArriveExpired(m)
      PROVE  calls' \subseteq calls /\ UNCHANGED <<sent, latest, stored>>
  BY <1>9 DEF ArriveLoad, ArriveFailed, ArriveExpired, NoAsk
<1>10. CASE Expire \/ (\E t \in Text : Type(t)) \/ UNCHANGED vars
  <2>1. calls' \subseteq calls /\ UNCHANGED <<sent, latest, stored>>
    BY <1>10 DEF Expire, Type, vars, net
  <2> QED  BY <1>3, <2>1
<1> QED
  BY <1>1, <1>3, <1>4, <1>5, <1>6, <1>7, <1>8, <1>9, <1>10 DEF Next, Asking

\* What Base says of the variables other than the calls.
Plain ==
  /\ session \in BOOLEAN /\ auth \in {"asking", "in", "out"}
  /\ at \in {"open", "left", "login"} /\ loading \in BOOLEAN
  /\ filter \in Filter /\ draft \in Texts /\ typed \in BOOLEAN
  /\ shown \in [no : Nat, filter : Filter, rev : Nat]
  /\ said \in Texts \cup {"none"} /\ did \subseteq Changing
  /\ own \in Nat /\ own <= stored.rev /\ shown.no <= sent

\* Base is Plain and the formed calls.
LEMMA PlainIsEnough ==
  ASSUME Base, [Next]_vars, Plain'
  PROVE  Base'
<1>1. UNCHANGED <<screen, p, role>>
  BY PageStays
<1>2. /\ (\A m \in calls' : Formed(m)') /\ Numbered'
      /\ sent' \in Nat /\ latest' \in 0..sent'
      /\ stored' \in [rev : Nat, text : Texts]
  BY CallsStayFormed
<1>3. ASSUME NEW m \in calls'
      PROVE  /\ m.no \in 1..sent' /\ m.of \subseteq Calls /\ m.of # {}
             /\ m.after \in Loads \cup {"reload", "clear", "reread", "refill",
                                        "close", "keep", "leave", "show"}
             /\ m.filter \in Filter /\ m.text \in Texts /\ m.back \in Texts
             /\ m.reply \in {"none", "ok", "failed", "expired"}
  BY <1>2 DEF Formed, CallType, After, Reply
<1>4. TypeOK'
  BY <1>1, <1>2, <1>3 DEF Base, TypeOK, Plain, Texts
<1> QED  BY <1>2, <1>4 DEF Base, Plain

\* Base is an invariant.
LEMMA BaseStays ==
  ASSUME Base, [Next]_vars
  PROVE  Base'
<1> SUFFICES Plain'
  BY PlainIsEnough
<1>1. Plain /\ sent \in Nat /\ stored.rev \in Nat /\ shown.no \in Nat
  BY DEF Base, TypeOK, Plain, Texts
<1>2. sent' \in Nat /\ sent' >= sent /\ stored'.rev \in Nat
      /\ stored'.rev >= stored.rev
  BY CallsStayFormed
<1>3. own <= stored'.rev /\ shown.no <= sent'
  BY <1>1, <1>2 DEF Plain
<1>4. "" \in Texts /\ Text \subseteq Texts
  BY ScreensAssumption DEF Texts
<1>5. CASE Asking
  <2>1. /\ UNCHANGED <<session, draft, typed, shown, stored, own, said, did>>
        /\ filter' \in Filter
    BY <1>5, AskingFields DEF user
  <2>2. auth' \in {"asking", "in", "out"} /\ at' \in {"open", "left", "login"}
        /\ loading' \in BOOLEAN
    BY <1>1, <1>5
       DEF Asking, RoleKnown, Search, ChangeFilter, Ask, Plain, Has
  <2> QED  BY <1>1, <1>3, <2>1, <2>2 DEF Plain
<1>6. ASSUME NEW c \in DOMAIN p.does, Click(c) PROVE Plain'
  BY <1>1, <1>3, <1>6 DEF Click, Plain
<1>7. ASSUME NEW m \in calls, Serve(m) \/ Fail(m) PROVE Plain'
  <2>1. PICK a : Answered(m, a)
    BY <1>7, AnswerFields
  <2>2. did' \subseteq Changing
    <3>1. CASE m.of \cap Changing # {}
      <4>1. Sound(p) /\ (Load(m) \/ Button(m))
        BY PageIsSound DEF Base, Formed
      <4>2. m.of \subseteq Changing
        BY <3>1, <4>1 DEF Sound, Load, Button
      <4> QED  BY <1>1, <2>1, <4>2 DEF Answered, Plain
    <3>2. CASE m.of \cap Changing = {}
      BY <1>1, <2>1, <3>2 DEF Answered, Plain
    <3> QED  BY <3>1, <3>2
  <2> QED  BY <1>1, <1>3, <2>1, <2>2 DEF Answered, Plain, page
<1>8. CASE Expire \/ OtherWrites \/ UNCHANGED vars
  BY <1>1, <1>3, <1>8 DEF Expire, OtherWrites, vars, page, hist, Plain
<1>9. ASSUME NEW t \in Text, Type(t) PROVE Plain'
  BY <1>1, <1>3, <1>4, <1>9 DEF Type, hist, Plain
<1>10. ASSUME NEW m \in calls, ArriveLoad(m) \/ ArriveWrite(m)
       PROVE  Plain'
  <2>1. /\ m.no \in Nat /\ m.no <= sent /\ m.filter \in Filter
        /\ m.rev \in Nat /\ m.rev <= stored.rev
        /\ m.text \in Texts /\ m.back \in Texts
    BY DEF Base, Formed, CallType
  <2>2. shown' \in [no : Nat, filter : Filter, rev : Nat] /\ shown'.no <= sent'
    <3>1. shown' = shown \/ Show(m)
      BY <1>10 DEF ArriveLoad, ArriveWrite
    <3>2. CASE Show(m)
      BY <1>1, <1>2, <2>1, <3>2 DEF Show
    <3> QED  BY <1>1, <1>3, <3>1, <3>2 DEF Plain
  <2>3. draft' \in Texts /\ typed' \in BOOLEAN
    BY <1>1, <1>4, <1>10, <2>1
       DEF ArriveLoad, ArriveWrite, Refill, KeepForm, Plain
  <2>4. own' \in Nat /\ own' <= stored'.rev
    BY <1>1, <1>10, <2>1 DEF ArriveLoad, ArriveWrite, Plain
  <2>5. said' \in Texts \cup {"none"}
    BY <1>1, <1>10, <2>1 DEF ArriveLoad, ArriveWrite, Report, Plain
  <2>6. loading' \in BOOLEAN /\ at' \in {"open", "left", "login"}
    BY <1>1, <1>10 DEF ArriveLoad, ArriveWrite, Ask, Plain, Has
  <2>7. UNCHANGED <<session, auth, filter, did>>
    BY <1>10 DEF ArriveLoad, ArriveWrite
  <2> QED  BY <1>1, <2>2, <2>3, <2>4, <2>5, <2>6, <2>7 DEF Plain
<1>11. ASSUME NEW m \in calls, ArriveFailed(m) \/ ArriveExpired(m)
       PROVE  Plain'
  BY <1>1, <1>3, <1>11 DEF ArriveFailed, ArriveExpired, NoAsk, Plain
<1> QED
  BY <1>5, <1>6, <1>7, <1>8, <1>9, <1>10, <1>11 DEF Next, Asking

\* ... from the start.
LEMMA BaseInit == Init => Base
<1> SUFFICES ASSUME Init PROVE Base
  OBVIOUS
<1>1. screen \in DOMAIN Screen /\ p = Screen[screen]
  BY ScreensAssumption DEF Init
<1>2. Sound(p)
  BY <1>1, PagesAreSound
<1>3. /\ draft = "" /\ draft \in Texts /\ First \in Filter
      /\ role \in Staff \cup {"visitor"}
  BY ScreensAssumption DEF Init, Texts
<1>4. /\ latest = sent /\ stored = [rev |-> 0, text |-> "old"] /\ own = 0
      /\ shown = [no |-> 0, filter |-> First, rev |-> 0] /\ filter = First
      /\ auth \in {"asking", "in", "out"} /\ session \in BOOLEAN
      /\ loading \in BOOLEAN /\ at = "open" /\ typed = FALSE
      /\ screen \in Opened /\ said = "none" /\ did = {}
  BY DEF Init
<1>5. \/ calls = {} /\ sent = 0
      \/ p.opens # {} /\ calls = {Call(1, p.opens, "load", First)} /\ sent = 1
  BY DEF Init
<1>6. /\ sent \in Nat
      /\ \A m \in calls : Formed(m)
      /\ Numbered
  <2>1. CASE calls = {} /\ sent = 0
    BY <2>1 DEF Numbered
  <2>2. CASE p.opens # {} /\ calls = {Call(1, p.opens, "load", First)} /\ sent = 1
    <3> DEFINE c == [no |-> 1, of |-> p.opens, after |-> "load",
                     filter |-> First, text |-> "", alone |-> TRUE,
                     reply |-> "none", rev |-> 0, back |-> ""]
    <3>1. calls = {c}
      BY <1>3, <2>2 DEF Call
    <3>2. c \in CallType
      BY <1>2, <1>3 DEF CallType, Sound, Loads, Reply
    <3>3. Load(c) /\ c.of # {} /\ c.no = 1 /\ c.rev = 0
      BY <2>2 DEF Load, Loads
    <3> HIDE DEF c
    <3>4. Formed(c)
      BY <1>4, <2>2, <3>2, <3>3 DEF Formed
    <3> QED  BY <2>2, <3>1, <3>4 DEF Numbered
  <2> QED  BY <1>5, <2>1, <2>2
<1>7. \A m \in calls : m \in CallType /\ m.no \in 1..sent /\ m.of # {}
  BY <1>6 DEF Formed
<1>8. TypeOK
  BY <1>1, <1>3, <1>4, <1>7 DEF TypeOK, CallType, After, Reply, Texts
<1> QED  BY <1>4, <1>6, <1>8 DEF Base

\* The type invariant holds of every page, whatever its table says and however
\* its answers cross.
THEOREM TypeCorrect == Spec => []TypeOK
<1>1. Base => TypeOK
  BY DEF Base
<1> QED  BY BaseInit, BaseStays, <1>1, PTL DEF Spec

-----------------------------------------------------------------------------
\* Duties.

\* What the API served the tab, it served to the user's role or to anybody.
Allowed ==
  \A c \in did : <<role, c>> \in Routes \/ <<"visitor", c>> \in Routes

\* canActivate stands before every effect.
LEMMA AllowedStays ==
  ASSUME Base, Allowed, [Next]_vars
  PROVE  Allowed'
<1>1. role' = role
  BY PageStays
<1>2. ASSUME NEW m \in calls, Serve(m) \/ Fail(m)
      PROVE  Allowed'
  <2>1. PICK a : Answered(m, a)
    BY <1>2, AnswerFields
  <2>2. CASE UNCHANGED did
    BY <1>1, <2>2 DEF Allowed
  <2>3. CASE did' = did \cup m.of /\ CanActivate(Who, m.of)
    <3>1. \A c \in m.of : <<role, c>> \in Routes \/ <<"visitor", c>> \in Routes
      BY <2>3 DEF CanActivate, Who
    <3> QED  BY <1>1, <2>3, <3>1 DEF Allowed
  <2> QED  BY <2>1, <2>2, <2>3 DEF Answered
<1>3. ASSUME UNCHANGED did PROVE Allowed'
  BY <1>1, <1>3 DEF Allowed
<1>4. CASE RoleKnown \/ Search \/ Expire \/ OtherWrites \/ UNCHANGED vars
  BY <1>3, <1>4 DEF RoleKnown, Search, Expire, OtherWrites, vars, hist
<1>5. ASSUME NEW t \in Text, Type(t) PROVE Allowed'
  BY <1>3, <1>5 DEF Type, hist
<1>6. ASSUME NEW f \in Filter, ChangeFilter(f) PROVE Allowed'
  BY <1>3, <1>6 DEF ChangeFilter
<1>7. ASSUME NEW c \in DOMAIN p.does, Click(c) PROVE Allowed'
  BY <1>3, <1>7 DEF Click
<1>8. ASSUME NEW m \in calls, \/ ArriveLoad(m) \/ ArriveWrite(m)
                              \/ ArriveFailed(m) \/ ArriveExpired(m)
      PROVE  Allowed'
  BY <1>3, <1>8 DEF ArriveLoad, ArriveWrite, ArriveFailed, ArriveExpired
<1> QED  BY <1>2, <1>4, <1>5, <1>6, <1>7, <1>8 DEF Next

\* Whatever page is opened and however calls fail and cross: nobody but an
\* administrator submits a quote and approves one, or makes a reserved change.
THEOREM DutiesAreApart == Spec => []DutiesApart
<1>1. Init => Allowed
  BY DEF Init, Allowed
<1>2. ASSUME Base, Allowed PROVE DutiesApart
  <2> SUFFICES ASSUME role \notin Admins PROVE DutiesApart
    BY DEF DutiesApart
  <2>1. role \in (Staff \cup {"visitor"}) \ Admins /\ did \subseteq Changing
    BY <1>2 DEF Base, TypeOK
  <2>2. "visitor" \in (Staff \cup {"visitor"}) \ Admins
    BY DEF Staff, Admins
  <2>3. did \subseteq Calls
    BY <2>1, CallsAreReadOrSent, ChangingAreSent
  <2>4. \A c \in did : Apart(role, c) \/ Apart("visitor", c)
    BY <1>2, <2>1, <2>2, <2>3, RoutesAreApart DEF Allowed
  <2>5. did \cap Reserved = {}
    BY <2>4 DEF Apart
  <2>6. ~({"submitQuote", "approveQuote"} \subseteq did)
    BY <2>4 DEF Apart
  <2> QED  BY <2>5, <2>6 DEF DutiesApart, Reserved
<1> QED  BY BaseInit, BaseStays, AllowedStays, <1>1, <1>2, PTL DEF Spec

-----------------------------------------------------------------------------
\* What is reported saved.

\* A call that sends the form and is alone is the only write under way; once
\* served, the API holds its text.
Sole ==
  \A m \in calls : m.alone /\ m.of \cap p.form # {} =>
    /\ \A n \in calls : n # m => ~Writes(n.of)
    /\ m.reply = "ok" => stored.text = m.text \/ (m.text = "" /\ Has("omits"))

\* While a text stands reported as saved, every write under way is served.
Stands ==
  /\ SavedStands
  /\ said # "none" => \A m \in calls : Writes(m.of) => m.reply # "none"

\* A page's readings write nothing.
LEMMA ReadsWriteNothing ==
  ASSUME Base
  PROVE  ~Writes(p.opens) /\ ~Writes(p.asks)
<1>1. Sound(p)
  BY PageIsSound DEF Base
<1>2. Rewriting \subseteq Changing
  BY ChangingAreSent DEF Rewriting, Sending, Trials, Client, RfqClient,
     ExtractionClient
<1> QED  BY <1>1, <1>2 DEF Sound, Writes

\* Both invariants survive a step that brings no write and leaves the text.
LEMMA NothingWritten ==
  ASSUME Base, Sole, Stands, [Next]_vars,
         \A n \in calls' : n \in calls \/ ~Writes(n.of),
         stored' = stored, said' \in {said, "none"}
  PROVE  Sole' /\ Stands'
<1>1. p' = p
  BY PageStays
<1>2. \A c : Writes(c.of)' <=> Writes(c.of)
  BY <1>1 DEF Writes
<1>3. ASSUME NEW m \in calls', m.of \cap p.form # {} PROVE m \in calls
  BY <1>3 DEF Writes
<1>4. Sole'
  BY <1>1, <1>2, <1>3 DEF Sole, Has
<1>5. Stands'
  BY <1>1, <1>2 DEF Stands, SavedStands, Has
<1> QED  BY <1>4, <1>5

\* A crowded call that sends the form is not alone.
LEMMA CrowdIsNotAlone ==
  ASSUME Base, NEW n \in Crowded, n.alone
  PROVE  n.of \cap p.form = {}
<1>1. calls \subseteq CallType
  BY DEF Base, Formed
<1> QED  BY <1>1, CrowdedFields

\* Both are kept by every step: a second write of the text ends what was said
\* and leaves no call alone.
LEMMA SavedStays ==
  ASSUME Base, Sole, Stands, [Next]_vars
  PROVE  Sole' /\ Stands'
<1>1. p' = p /\ Sound(p) /\ ~Writes(p.opens) /\ ~Writes(p.asks)
  BY PageStays, PageIsSound, ReadsWriteNothing DEF Base
<1>2. \A c : Writes(c.of)' <=> Writes(c.of)
  BY <1>1 DEF Writes
<1>3. ASSUME calls' \subseteq calls, stored' = stored, said' \in {said, "none"}
      PROVE  Sole' /\ Stands'
  BY <1>3, NothingWritten
<1>4. CASE Asking
  <2>1. stored' = stored /\ said' = said
    BY <1>4, AskingFields
  <2>2. ASSUME NEW c, NEW of, Reads(c, of) PROVE Sole' /\ Stands'
    <3>1. \A n \in calls' : n \in calls \/ ~Writes(n.of)
      BY <1>1, <2>2 DEF Reads, New
    <3> QED  BY <2>1, <3>1, NothingWritten
  <2> QED  BY <1>3, <1>4, <2>1, <2>2, AskingFields
<1>5. ASSUME NEW c \in DOMAIN p.does, Click(c) PROVE Sole' /\ Stands'
  <2>1. PICK mine : Sends(c, mine)
    BY <1>5, ClickFields
  <2>2. stored' = stored /\ said' = IF Writes({c}) THEN "none" ELSE said
    BY <1>5 DEF Click
  <2>3. CASE Writes({c})
    <3>1. Stands'
      BY <2>2, <2>3 DEF Stands, SavedStands
    <3>2. ASSUME NEW m \in calls', m.alone, m.of \cap p.form # {}
          PROVE  /\ m = mine /\ m.reply = "none"
                 /\ \A n \in calls' : n # m => ~Writes(n.of)
      <4>1. m = mine /\ m.reply = "none"
        BY <2>1, <2>3, <3>2, CrowdIsNotAlone DEF Sends
      <4>2. ~\E n \in calls : Writes(n.of)
        BY <2>1, <3>2, <4>1 DEF Sends
      <4>3. \A n \in Crowded : ~Writes(n.of)
        BY <4>2, CrowdedFields DEF Base, Formed, Same
      <4> QED  BY <2>1, <2>3, <4>1, <4>3 DEF Sends
    <3>3. Sole'
      BY <1>1, <1>2, <3>2 DEF Sole
    <3> QED  BY <3>1, <3>3
  <2>4. CASE ~Writes({c})
    BY <2>1, <2>2, <2>4, NothingWritten DEF Sends
  <2> QED  BY <2>3, <2>4
<1>6. ASSUME NEW m \in calls, Serve(m) \/ Fail(m) PROVE Sole' /\ Stands'
  <2>1. PICK a : Answered(m, a)
    BY <1>6, AnswerFields
  <2>2. m \in CallType /\ (Load(m) \/ Button(m)) /\ m.reply = "none"
    BY <2>1 DEF Base, Formed, Answered
  <2>3. calls' = (calls \ {m}) \cup {a} /\ a.of = m.of /\ a.text = m.text
        /\ a.alone = m.alone /\ a.reply # "none" /\ said' = said
    BY <2>1 DEF Answered
  <2>5. CASE ~Writes(m.of) /\ stored'.text = stored.text
    <3>1. ASSUME NEW n \in calls', n.of \cap p.form # {}
          PROVE  n \in calls
      BY <2>3, <2>5, <3>1 DEF Writes
    <3>2. Sole'
      BY <1>1, <1>2, <2>3, <2>5, <3>1 DEF Sole, Has
    <3>3. Stands'
      BY <1>1, <1>2, <2>3, <2>5 DEF Stands, SavedStands, Has
    <3> QED  BY <3>2, <3>3
  <2>6. CASE Writes(m.of)
    <3>1. said' = "none"
      BY <2>2, <2>3, <2>6 DEF Stands
    <3>2. ASSUME NEW n \in calls', n.alone, n.of \cap p.form # {}
          PROVE  n = a /\ \A k \in calls' : k # n => ~Writes(k.of)
      BY <2>3, <2>6, <3>2 DEF Sole
    <3>3. ASSUME m.of \cap p.form # {}, a.reply = "ok"
          PROVE  stored'.text = m.text \/ (m.text = "" /\ Has("omits"))
      <4>1. Button(m)
        BY <1>1, <2>2, <3>3 DEF Load, Writes
      <4>2. m.of \cap Changing # {} /\ m.of \cap Rewriting = {}
        BY <1>1, <3>3, <4>1 DEF Button, Sound
      <4>3. stored' = Written(m)
        BY <2>1, <3>3, <4>2 DEF Answered
      <4> QED  BY <2>2, <3>3, <4>2, <4>3, WrittenFields DEF Base
    <3>4. Sole'
      BY <1>1, <1>2, <2>3, <3>2, <3>3 DEF Sole, Has
    <3>5. Stands'
      BY <3>1 DEF Stands, SavedStands
    <3> QED  BY <3>4, <3>5
  <2>7. ASSUME ~Writes(m.of) PROVE stored'.text = stored.text
    <3>1. m.of \cap Rewriting = {} /\ m.of \cap p.form = {}
      BY <2>7 DEF Writes
    <3>2. stored' = stored \/ stored' = Written(m)
      BY <2>1 DEF Answered
    <3> QED  BY <2>2, <3>1, <3>2, WrittenFields DEF Base
  <2> QED  BY <2>5, <2>6, <2>7
<1>7. CASE OtherWrites
  <2>1. calls' = Crowded /\ said' = "none"
    BY <1>7 DEF OtherWrites
  <2>2. Sole'
    BY <1>1, <2>1, CrowdIsNotAlone DEF Sole
  <2> QED  BY <2>1, <2>2 DEF Stands, SavedStands
<1>8. ASSUME NEW m \in calls,
             ArriveLoad(m) \/ ArriveFailed(m) \/ ArriveExpired(m)
      PROVE  Sole' /\ Stands'
  BY <1>3, <1>8 DEF ArriveLoad, ArriveFailed, ArriveExpired
<1>9. ASSUME NEW m \in calls, ArriveWrite(m) PROVE Sole' /\ Stands'
  <2>1. stored' = stored /\ m.reply = "ok" /\ Report(m)
    BY <1>9 DEF ArriveWrite
  <2>2. \A n \in calls' : n \in calls \ {m} \/ ~Writes(n.of)
    <3>1. ASSUME NEW c, Renews(m, c)
          PROVE  \A n \in calls' : n \in calls \ {m} \/ ~Writes(n.of)
      BY <1>1, <3>1 DEF Renews, New
    <3> QED  BY <1>9, <3>1, ArriveFields
  <2>3. CASE said' \in {said, "none"}
    BY <2>1, <2>2, <2>3, NothingWritten
  <2>4. CASE m.of \cap p.form # {} /\ m.alone /\ said' = m.text
    <3>1. \A n \in calls' : ~Writes(n.of)
      BY <2>2, <2>4 DEF Sole
    <3>2. Sole'
      BY <1>1, <3>1 DEF Sole, Writes
    <3>3. Stands'
      BY <1>1, <1>2, <2>1, <2>4, <3>1 DEF Stands, SavedStands, Sole, Has
    <3> QED  BY <3>2, <3>3
  <2> QED  BY <2>1, <2>3, <2>4 DEF Report
<1>10. CASE Expire \/ (\E t \in Text : Type(t)) \/ UNCHANGED vars
  <2>1. calls' \subseteq calls /\ stored' = stored /\ said' = said
    BY <1>10 DEF Expire, Type, vars, net, hist
  <2> QED  BY <1>3, <2>1
<1> QED
  BY <1>4, <1>5, <1>6, <1>7, <1>8, <1>9, <1>10 DEF Next, Asking

\* What a page has reported saved is what the API holds, until somebody writes
\* again; only the forms that leave out an emptied field report more than is so.
THEOREM SavedIsStored == Spec => []SavedStands
<1>1. Init => Sole /\ Stands
  <2> SUFFICES ASSUME Init PROVE Sole /\ Stands
    OBVIOUS
  <2>1. said = "none"
    BY DEF Init
  <2>2. Base
    BY BaseInit
  <2>3. calls = {} \/ calls = {Call(1, p.opens, "load", First)}
    BY DEF Init
  <2>4. Call(1, p.opens, "load", First).of = p.opens
    BY DEF Call
  <2>5. \A m \in calls : ~Writes(m.of)
    BY <2>2, <2>3, <2>4, ReadsWriteNothing
  <2>6. Sole
    BY <2>5 DEF Sole, Writes
  <2> QED  BY <2>1, <2>6 DEF Stands, SavedStands
<1>2. Stands => SavedStands
  BY DEF Stands
<1> QED  BY BaseInit, BaseStays, SavedStays, <1>1, <1>2, PTL DEF Spec

-----------------------------------------------------------------------------
\* What is typed.

\* A page that loads once has nothing else under way until the first answer is
\* on the screen.
FirstLoad ==
  LoadsOnce(p) =>
    /\ \A m \in calls : m.after = "load" => shown.no = 0 /\ calls = {m}
    /\ auth = "asking" /\ Has("waits") => calls = {} /\ shown.no = 0

\* A page that fills its form once loses nothing typed there, since it is typed
\* after the form was filled.
NotLost ==
  FillsOnce(p) =>
    /\ ~lost
    /\ Has("filled") /\ typed => shown.no > 0

\* Which of the effects a button may have.
LEMMA ButtonEffects ==
  ASSUME Base, NEW m \in calls, m.after \notin Loads
  PROVE  m.after \in Effects(p)
  BY DEF Base, Formed, Load, Button, Effects

\* The form is on the screen of a page that loads once only when its answer is.
LEMMA ReadyAfterLoad ==
  ASSUME LoadsOnce(p), Ready
  PROVE  shown.no > 0
  BY DEF LoadsOnce, Ready, Has

\* No button works before the first answer, and no later reading is a load.
LEMMA FirstLoadStays ==
  ASSUME Base, FirstLoad, [Next]_vars
  PROVE  FirstLoad'
<1> SUFFICES ASSUME LoadsOnce(p)
             PROVE  /\ \A m \in calls' : m.after = "load" =>
                                            shown'.no = 0 /\ calls' = {m}
                    /\ auth' = "asking" /\ Has("waits") =>
                         calls' = {} /\ shown'.no = 0
  BY PageStays DEF FirstLoad, LoadsOnce, Has
<1>1. /\ \A m \in calls : m.after = "load" => shown.no = 0 /\ calls = {m}
      /\ auth = "asking" /\ Has("waits") => calls = {} /\ shown.no = 0
  BY DEF FirstLoad
<1>2. calls \subseteq CallType /\ shown.no \in Nat
  BY DEF Base, TypeOK, Formed
<1>3. p.opens # {} /\ p.asks = {} /\ ~Has("filters") /\ ~Has("rerun")
  BY DEF LoadsOnce, Has
<1>4. ASSUME UNCHANGED <<auth, shown>>,
             calls' = calls \/ calls' = {}
      PROVE  FirstLoad'
  BY <1>1, <1>4, PageStays DEF FirstLoad, LoadsOnce, Has
<1>5. CASE RoleKnown
  <2>1. UNCHANGED shown
    BY <1>5 DEF RoleKnown
  <2>2. CASE calls' = calls /\ (auth' = "asking" => auth = "asking")
    BY <1>1, <2>1, <2>2
  <2>3. CASE calls' = {} /\ auth' = auth
    BY <1>1, <2>1, <2>3, <1>5 DEF RoleKnown
  <2>4. CASE /\ Has("waits") /\ auth' = "in"
             /\ Ask(calls, p.opens, "load", filter)
    <3>1. calls = {} /\ shown.no = 0
      BY <1>1, <1>5, <2>4 DEF RoleKnown
    <3>2. calls' = {Call(sent + 1, p.opens, "load", filter)}
      BY <2>4, <3>1 DEF Ask
    <3> QED  BY <2>1, <2>4, <3>1, <3>2
  <2> QED  BY <1>3, <1>5, <2>2, <2>3, <2>4 DEF RoleKnown, net
<1>6. ASSUME NEW f \in Filter, ChangeFilter(f)
      PROVE  UNCHANGED <<auth, shown, calls>>
  BY <1>3, <1>6 DEF ChangeFilter, net
<1>7. ~Search
  BY <1>3 DEF Search
<1>8. ASSUME NEW c \in DOMAIN p.does, Click(c)
      PROVE  auth' = "in" /\ \A m \in calls' : m.after # "load"
  <2>1. shown.no > 0 /\ auth' = "in"
    BY <1>8, ReadyAfterLoad DEF Click, Visible, Using
  <2>2. \A m \in calls : m.after # "load"
    BY <1>1, <1>2, <2>1
  <2>3. p.does[c] # "load" /\ p.does[c] \in After
    BY PageIsSound DEF Base, Sound, Effects, After
  <2>4. \A m \in Crowded : m.after # "load"
    BY <1>2, <2>2, CrowdedFields DEF Same
  <2>5. PICK k : Sends(c, k)
    BY <1>8, ClickFields
  <2> QED  BY <2>1, <2>2, <2>3, <2>4, <2>5 DEF Sends
<1>9. ASSUME NEW m \in calls, Serve(m) \/ Fail(m)
      PROVE  FirstLoad'
  <2>1. PICK a : Answered(m, a)
    BY <1>9, AnswerFields
  <2>2. UNCHANGED <<auth, shown>> /\ a.after = m.after
        /\ calls' = (calls \ {m}) \cup {a}
    BY <2>1 DEF Answered, page
  <2>3. ASSUME NEW n \in calls', n.after = "load"
        PROVE  shown'.no = 0 /\ calls' = {n}
    BY <1>1, <2>2, <2>3
  <2>4. auth' = "asking" /\ Has("waits") => FALSE
    BY <1>1, <2>2
  <2> QED  BY <2>3, <2>4, PageStays DEF FirstLoad, Has
<1>10. CASE OtherWrites
  <2>1. calls' = Crowded /\ UNCHANGED <<auth, shown>>
    BY <1>10 DEF OtherWrites, page
  <2>2. ASSUME NEW n \in Crowded, n.after = "load"
        PROVE  shown.no = 0 /\ Crowded = {n}
    <3>1. PICK m \in calls : Same(n, m)
      BY <1>2, CrowdedFields
    <3>2. shown.no = 0 /\ calls = {m}
      BY <1>1, <2>2, <3>1 DEF Same
    <3>3. \A k \in Crowded : k.no = n.no
      BY <1>2, <3>1, <3>2, CrowdedFields DEF Same
    <3> QED  BY <1>2, <3>2, <3>3, CrowdedNumbered DEF Base, Numbered
  <2>3. auth = "asking" /\ Has("waits") => Crowded = {} /\ shown.no = 0
    BY <1>1, <1>2, CrowdedFields
  <2> QED  BY <2>1, <2>2, <2>3
<1>11. ASSUME NEW m \in calls, ArriveLoad(m) \/ ArriveWrite(m)
      PROVE  /\ \A n \in calls' : n.after # "load"
             /\ ~(auth' = "asking" /\ Has("waits"))
  <2>1. auth' = auth
    BY <1>11 DEF ArriveLoad, ArriveWrite
  <2>2. \A n \in calls \ {m} : n.after # "load"
    BY <1>1
  <2>3. ASSUME NEW c, Renews(m, c) PROVE c.after # "load"
    <3>1. m.after = "reread"
      <4>1. m.after \in Effects(p) /\ m.after \in {"reload", "clear", "reread"}
        BY <2>3, ButtonEffects DEF Renews, Loads
      <4> QED  BY <4>1 DEF LoadsOnce
    <3> QED  BY <2>3, <3>1 DEF Renews, New
  <2>4. calls' = calls \ {m} \/ \E c : Renews(m, c)
    BY <1>11, ArriveFields DEF ArriveLoad
  <2> QED  BY <1>1, <2>1, <2>2, <2>3, <2>4 DEF Renews
<1>12. ASSUME NEW m \in calls, ArriveFailed(m) \/ ArriveExpired(m)
      PROVE  /\ calls' \subseteq calls \ {m}
             /\ UNCHANGED <<auth, shown>>
  BY <1>12 DEF ArriveFailed, ArriveExpired
<1>13. ASSUME NEW m \in calls, calls' \subseteq calls \ {m},
             UNCHANGED <<auth, shown>>
      PROVE  FirstLoad'
  BY <1>1, <1>13, PageStays DEF FirstLoad, Has
<1>14. CASE Expire \/ (\E t \in Text : Type(t)) \/ UNCHANGED vars
  <2>1. UNCHANGED <<auth, shown, calls>>
    BY <1>14 DEF Expire, Type, vars, net, page
  <2> QED  BY <1>1, <2>1
<1>15. LoadsOnce(p)' /\ (Has("waits") <=> Has("waits")')
  BY PageStays DEF LoadsOnce, Has
<1> QED
  BY <1>1, <1>4, <1>5, <1>6, <1>7, <1>8, <1>9, <1>10, <1>11, <1>12, <1>13,
     <1>14, <1>15 DEF Next, FirstLoad

\* Filling the form once, a page loses nothing.
LEMMA NotLostStays ==
  ASSUME Base, FirstLoad, NotLost, [Next]_vars
  PROVE  NotLost'
<1> SUFFICES ASSUME FillsOnce(p)
             PROVE  ~lost' /\ (Has("filled") /\ typed' => shown'.no > 0)
  BY PageStays DEF NotLost, FillsOnce, LoadsOnce, Has, Effects
<1>1. ~lost /\ (Has("filled") /\ typed => shown.no > 0)
  BY DEF NotLost
<1>2. /\ Has("filled") => LoadsOnce(p) /\ ~Has("early")
      /\ Effects(p) \cap {"refill", "clear", "close"} = {}
  BY DEF FillsOnce, Has
<1>3. \A m \in calls : m.no > 0 /\ m.no \in Nat
  BY DEF Base, Formed
<1>4. ASSUME UNCHANGED <<typed, shown, lost>>
      PROVE  ~lost' /\ (Has("filled") /\ typed' => shown'.no > 0)
  BY <1>1, <1>4
<1>5. CASE Asking
  BY <1>4, <1>5, AskingFields
<1>6. ASSUME NEW t \in Text, Type(t)
      PROVE  ~lost' /\ (Has("filled") /\ typed' => shown'.no > 0)
  <2>1. UNCHANGED <<shown, lost>> /\ (Has("early") \/ Ready)
    BY <1>6 DEF Type, Visible, hist
  <2> QED  BY <1>1, <1>2, <2>1, ReadyAfterLoad
<1>7. ASSUME NEW c \in DOMAIN p.does, Click(c)
      PROVE  ~lost' /\ (Has("filled") /\ typed' => shown'.no > 0)
  BY <1>1, <1>7 DEF Click
<1>8. ASSUME NEW m \in calls, ArriveLoad(m)
      PROVE  ~lost' /\ (Has("filled") /\ typed' => shown'.no > 0)
  <2>1. shown'.no = m.no /\ m.after \in Loads
    BY <1>8 DEF ArriveLoad, Show
  <2>2. CASE Fill(m)
    <3>1. Has("filled") /\ m.after = "load"
      BY <2>1, <2>2 DEF Fill, Loads
    <3>2. ~typed
      BY <1>1, <1>2, <3>1 DEF FirstLoad
    <3> QED  BY <1>1, <1>3, <1>8, <2>1, <2>2, <3>2 DEF ArriveLoad, Refill
  <2>3. CASE ~Fill(m)
    BY <1>1, <1>3, <1>8, <2>1, <2>3 DEF ArriveLoad, KeepForm
  <2> QED  BY <2>2, <2>3
<1>9. ASSUME NEW m \in calls, ArriveWrite(m)
      PROVE  UNCHANGED <<typed, shown, lost>>
  <2>1. m.after \in Effects(p)
    BY <1>9, ButtonEffects DEF ArriveWrite
  <2> QED  BY <1>2, <1>9, <2>1 DEF ArriveWrite, KeepForm
<1>10. ASSUME NEW m \in calls, \/ Serve(m) \/ Fail(m)
                               \/ ArriveFailed(m) \/ ArriveExpired(m)
       PROVE  UNCHANGED <<typed, shown, lost>>
  BY <1>10 DEF Serve, Fail, ArriveFailed, ArriveExpired, page
<1>11. CASE Expire \/ OtherWrites \/ UNCHANGED vars
  BY <1>4, <1>11 DEF Expire, OtherWrites, vars, page, hist
<1> QED
  BY <1>4, <1>5, <1>6, <1>7, <1>8, <1>9, <1>10, <1>11 DEF Next, Asking

\* What the user types and has not sent is overwritten on the seven pages the
\* property names and on no other.
THEOREM TypingIsKeptElsewhere == Spec => []TypingIsKept
<1>1. Init => FirstLoad /\ NotLost
  <2> SUFFICES ASSUME Init PROVE FirstLoad /\ NotLost
    OBVIOUS
  <2>1. ~lost /\ ~typed /\ shown.no = 0
    BY DEF Init
  <2>2. \/ calls = {}
        \/ ~Has("waits") /\ calls = {Call(1, p.opens, "load", First)}
    BY DEF Init
  <2>3. FirstLoad
    BY <2>1, <2>2 DEF FirstLoad
  <2> QED  BY <2>1, <2>3 DEF NotLost
<1>2. ASSUME Base, NotLost PROVE TypingIsKept
  <2>1. screen \in DOMAIN Screen /\ p = Screen[screen]
    BY <1>2, PageIsSound DEF Base
  <2>2. screen \notin Overtyped => FillsOnce(p)
    BY <2>1, PagesFillOnce
  <2> QED  BY <1>2, <2>2 DEF NotLost, TypingIsKept, Overtyped
<1> QED
  BY BaseInit, BaseStays, FirstLoadStays, NotLostStays, <1>1, <1>2, PTL
     DEF Spec

-----------------------------------------------------------------------------
\* What is shown.

\* A button whose answer renews the screen is the last call to do so.
OneRefill ==
  "refill" \in Effects(p) /\ RefillsAlone(p) =>
    \A m \in calls : m.after = "refill" => m.no = latest

\* The last answer the screen is to show is no older than the change it is
\* shown after, ...
Fresh ==
  RefillsAlone(p) =>
    /\ shown.no = latest => shown.rev >= own
    /\ \A m \in calls : m.no = latest /\ m.reply = "ok" => m.rev >= own

\* ... and was asked for with the inputs the page has now.
Asked ==
  Has("filters") =>
    /\ shown.no = latest => shown.filter = filter \/ carried
    /\ \A m \in calls : m.no = latest => m.filter = filter \/ carried

\* A crowded call comes from one that is the same but for being alone.
LEMMA CrowdedIsSame ==
  ASSUME Base, NEW n \in Crowded
  PROVE  \E m \in calls : Same(n, m)
<1>1. calls \subseteq CallType
  BY DEF Base, Formed
<1> QED  BY <1>1, CrowdedFields

\* After a button, the calls are those from before and the button's.
LEMMA SendsFields ==
  ASSUME Base, NEW c \in DOMAIN p.does, Click(c)
  PROVE  \E k : /\ k.no = sent + 1 /\ k.of = {c} /\ k.after = p.does[c]
                /\ k.filter = filter /\ k.reply = "none"
                /\ \A n \in calls' : n = k \/ \E m \in calls : Same(n, m)
                /\ latest' = IF p.does[c] = "refill" THEN sent + 1 ELSE latest
<1>1. PICK k : Sends(c, k)
  BY ClickFields
<1>2. ASSUME NEW n \in calls', n # k PROVE \E m \in calls : Same(n, m)
  BY <1>1, <1>2, CrowdedIsSame DEF Sends, Same
<1> QED  BY <1>1, <1>2 DEF Sends

\* The busy flag keeps a second such button away.
LEMMA OneRefillStays ==
  ASSUME Base, FirstLoad, OneRefill, [Next]_vars
  PROVE  OneRefill'
<1> SUFFICES ASSUME "refill" \in Effects(p), RefillsAlone(p)
             PROVE  \A m \in calls' : m.after = "refill" => m.no = latest'
  BY PageStays DEF OneRefill, RefillsAlone, LoadsOnce, Effects, At
<1>1. /\ LoadsOnce(p) /\ "reread" \notin Effects(p)
      /\ "reload" \notin Effects(p) /\ "clear" \notin Effects(p)
  BY DEF RefillsAlone, LoadsOnce
<1>2. p.asks = {} /\ ~Has("filters") /\ ~Has("rerun")
  BY <1>1 DEF LoadsOnce, Has
<1>3. \A m \in calls : m.after = "refill" => m.no = latest
  BY DEF OneRefill
<1>4. ASSUME calls' \subseteq calls, latest' = latest
      PROVE  \A m \in calls' : m.after = "refill" => m.no = latest'
  BY <1>3, <1>4
<1>5. CASE RoleKnown
  <2>1. CASE calls' \subseteq calls /\ latest' = latest
    BY <1>4, <2>1
  <2>2. CASE Has("waits") /\ Ask(calls, p.opens, "load", filter)
    <3>1. calls = {}
      BY <1>1, <1>5, <2>2 DEF FirstLoad, RoleKnown
    <3>2. calls' = {Call(sent + 1, p.opens, "load", filter)}
      BY <2>2, <3>1 DEF Ask
    <3>3. Call(sent + 1, p.opens, "load", filter).after = "load"
      BY DEF Call
    <3> QED  BY <3>2, <3>3
  <2> QED  BY <1>2, <1>5, <2>1, <2>2 DEF RoleKnown, net
<1>6. ASSUME NEW f \in Filter, ChangeFilter(f)
      PROVE  UNCHANGED <<calls, latest>>
  BY <1>2, <1>6 DEF ChangeFilter, net
<1>7. ~Search
  BY <1>2 DEF Search
<1>8. ASSUME NEW c \in DOMAIN p.does, Click(c)
      PROVE  \A m \in calls' : m.after = "refill" => m.no = latest'
  <2>1. PICK k : /\ k.no = sent + 1 /\ k.of = {c} /\ k.after = p.does[c]
                 /\ k.filter = filter /\ k.reply = "none"
                 /\ \A n \in calls' : n = k \/ \E m \in calls : Same(n, m)
                 /\ latest' = IF p.does[c] = "refill" THEN sent + 1 ELSE latest
    BY <1>8, SendsFields
  <2>2. CASE p.does[c] = "refill"
    <3>1. ASSUME NEW m \in calls, m.after = "refill" PROVE FALSE
      <4>1. PICK d \in DOMAIN p.does : m.of = {d} /\ p.does[d] = "refill"
        BY <3>1 DEF Base, Formed, Load, Button, Loads
      <4>2. d \in At(p.busy, c, {})
        BY <2>2, <4>1 DEF RefillsAlone
      <4>3. m.of \cap At(p.busy, c, {}) = {}
        BY <1>8 DEF Click
      <4> QED  BY <4>1, <4>2, <4>3
    <3> QED  BY <2>1, <2>2, <3>1 DEF Same
  <2>3. CASE p.does[c] # "refill"
    BY <1>3, <2>1, <2>3 DEF Same
  <2> QED  BY <2>2, <2>3
<1>9. ASSUME NEW m \in calls, Serve(m) \/ Fail(m)
      PROVE  \A n \in calls' : n.after = "refill" => n.no = latest'
  <2>1. PICK a : Answered(m, a)
    BY <1>9, AnswerFields
  <2> QED  BY <1>3, <2>1 DEF Answered
<1>10. CASE OtherWrites
  <2>1. calls' = Crowded /\ latest' = latest
    BY <1>10 DEF OtherWrites
  <2> QED  BY <1>3, <2>1, CrowdedIsSame DEF Same
<1>11. ASSUME NEW m \in calls, ArriveWrite(m)
       PROVE  calls' \subseteq calls /\ latest' = latest
  <2>1. m.after \in Effects(p)
    BY <1>11, ButtonEffects DEF ArriveWrite
  <2> QED  BY <1>1, <1>11, <2>1, ArriveFields DEF Renews
<1>12. ASSUME NEW m \in calls,
              ArriveLoad(m) \/ ArriveFailed(m) \/ ArriveExpired(m)
       PROVE  calls' \subseteq calls /\ latest' = latest
  BY <1>12 DEF ArriveLoad, ArriveFailed, ArriveExpired, NoAsk
<1>13. CASE Expire \/ (\E t \in Text : Type(t)) \/ UNCHANGED vars
  <2>1. calls' \subseteq calls /\ latest' = latest
    BY <1>13 DEF Expire, Type, vars, net
  <2> QED  BY <1>4, <2>1
<1> QED
  BY <1>4, <1>5, <1>6, <1>7, <1>8, <1>9, <1>10, <1>11, <1>12, <1>13 DEF Next

\* Every answer that counts as a change is followed by a new reading, or is
\* itself the last thing to be shown.
LEMMA FreshStays ==
  ASSUME Base, OneRefill, Fresh, [Next]_vars
  PROVE  Fresh'
<1> SUFFICES ASSUME RefillsAlone(p)
             PROVE  /\ shown'.no = latest' => shown'.rev >= own'
                    /\ \A m \in calls' : m.no = latest' /\ m.reply = "ok"
                                           => m.rev >= own'
  BY PageStays DEF Fresh, RefillsAlone, LoadsOnce, Effects, At
<1>1. /\ shown.no = latest => shown.rev >= own
      /\ \A m \in calls : m.no = latest /\ m.reply = "ok" => m.rev >= own
  BY DEF Fresh
<1>2. /\ sent \in Nat /\ shown.no \in Nat /\ shown.no <= sent
      /\ own \in Nat /\ own <= stored.rev /\ stored.rev \in Nat
      /\ \A m \in calls : m.no \in 1..sent
  BY DEF Base, TypeOK, Formed
<1> DEFINE Good == /\ shown'.no = latest' => shown'.rev >= own'
                   /\ \A m \in calls' : m.no = latest' /\ m.reply = "ok"
                                          => m.rev >= own'
<1>3. ASSUME UNCHANGED <<shown, latest, own>>,
             \A n \in calls' : n \in calls \/ \E m \in calls : Same(n, m)
      PROVE  Good
  BY <1>1, <1>3 DEF Same
<1>4. ASSUME UNCHANGED shown, latest' = sent + 1,
             \A n \in calls' : \/ n \in calls \/ \E m \in calls : Same(n, m)
                               \/ n.reply = "none"
      PROVE  Good
  BY <1>2, <1>4 DEF Same
<1>5. CASE Asking
  <2>1. UNCHANGED <<shown, own>>
    BY <1>5, AskingFields
  <2>2. ASSUME NEW c, NEW of, Reads(c, of) PROVE Good
    BY <1>4, <2>1, <2>2 DEF Reads, New
  <2> QED  BY <1>3, <1>5, <2>1, <2>2, AskingFields
<1>6. ASSUME NEW c \in DOMAIN p.does, Click(c) PROVE Good
  <2>1. PICK k : /\ k.no = sent + 1 /\ k.of = {c} /\ k.after = p.does[c]
                 /\ k.filter = filter /\ k.reply = "none"
                 /\ \A n \in calls' : n = k \/ \E m \in calls : Same(n, m)
                 /\ latest' = IF p.does[c] = "refill" THEN sent + 1 ELSE latest
    BY <1>6, SendsFields
  <2>2. UNCHANGED <<shown, own>>
    BY <1>6 DEF Click
  <2> QED  BY <1>1, <1>2, <2>1, <2>2 DEF Same
<1>7. ASSUME NEW m \in calls, Serve(m) \/ Fail(m) PROVE Good
  <2>1. PICK a : Answered(m, a)
    BY <1>7, AnswerFields
  <2>2. UNCHANGED <<shown, latest, own>> /\ calls' = (calls \ {m}) \cup {a}
        /\ a.rev = stored'.rev
    BY <2>1 DEF Answered, page
  <2>3. a.rev >= own
    BY <1>2, <2>2, CallsStayFormed
  <2> QED  BY <1>1, <2>2, <2>3
<1>8. CASE OtherWrites
  <2>1. UNCHANGED <<shown, latest, own>> /\ calls' = Crowded
    BY <1>8 DEF OtherWrites, page
  <2> QED  BY <1>3, <2>1, CrowdedIsSame
<1>9. ASSUME NEW m \in calls, ArriveLoad(m) PROVE Good
  BY <1>1, <1>9 DEF ArriveLoad, NoAsk, Show
<1>10. ASSUME NEW m \in calls, ArriveWrite(m) PROVE Good
  <2>1. m.after \in Effects(p)
    BY <1>10, ButtonEffects DEF ArriveWrite
  <2>2. CASE m.after = "refill"
    <3>1. m.no = latest /\ m.rev \in Nat
      BY <2>1, <2>2 DEF OneRefill, Base, Formed, CallType
    <3>2. calls' = calls \ {m} /\ latest' = latest
      BY <1>10, <2>2, ArriveFields DEF Renews
    <3>3. \A n \in calls' : n.no # latest'
      BY <3>1, <3>2 DEF Base, Numbered
    <3>4. shown'.rev = m.rev /\ own' = m.rev
      BY <1>10, <2>2 DEF ArriveWrite, Show
    <3> QED  BY <3>1, <3>3, <3>4
  <2>3. CASE m.after # "refill"
    <3>1. UNCHANGED shown
      BY <1>10, <2>3 DEF ArriveWrite
    <3>2. ASSUME NEW c, Renews(m, c) PROVE Good
      BY <1>4, <3>1, <3>2 DEF Renews, New
    <3>3. ASSUME calls' = calls \ {m}, latest' = latest,
                 m.after \notin {"reload", "clear", "reread"}
          PROVE  Good
      <4>1. own' = own
        BY <1>10, <2>3, <3>3 DEF ArriveWrite
      <4> QED  BY <1>3, <3>1, <3>3, <4>1
    <3> QED  BY <1>10, <3>2, <3>3, ArriveFields
  <2> QED  BY <2>2, <2>3
<1>11. ASSUME NEW m \in calls, ArriveFailed(m) \/ ArriveExpired(m)
       PROVE  UNCHANGED <<shown, latest, own>> /\ calls' \subseteq calls
  BY <1>11 DEF ArriveFailed, ArriveExpired, NoAsk
<1>12. CASE Expire \/ (\E t \in Text : Type(t)) \/ UNCHANGED vars
  <2>1. UNCHANGED <<shown, latest, own>> /\ calls' \subseteq calls
    BY <1>12 DEF Expire, Type, vars, net, page, hist
  <2> QED  BY <1>3, <2>1
<1> QED
  BY <1>3, <1>5, <1>6, <1>7, <1>8, <1>9, <1>10, <1>11, <1>12 DEF Next, Asking

\* Whoever asks takes the inputs along, or is recorded as carried.
LEMMA AskedStays ==
  ASSUME Base, Asked, [Next]_vars
  PROVE  Asked'
<1> SUFFICES ASSUME Has("filters")
             PROVE  /\ shown'.no = latest' =>
                         shown'.filter = filter' \/ carried'
                    /\ \A m \in calls' : m.no = latest' =>
                                           m.filter = filter' \/ carried'
  BY PageStays DEF Asked, Has
<1>1. /\ shown.no = latest => shown.filter = filter \/ carried
      /\ \A m \in calls : m.no = latest => m.filter = filter \/ carried
  BY DEF Asked
<1>2. /\ sent \in Nat /\ shown.no \in Nat /\ shown.no <= sent /\ latest <= sent
      /\ latest \in Nat /\ \A m \in calls : m.no \in 1..sent
  BY DEF Base, TypeOK, Formed
<1> DEFINE Good == /\ shown'.no = latest' => shown'.filter = filter' \/ carried'
                   /\ \A m \in calls' : m.no = latest' =>
                                          m.filter = filter' \/ carried'
<1>3. ASSUME UNCHANGED <<shown, latest, filter, carried>>,
             \A n \in calls' : n \in calls \/ \E m \in calls : Same(n, m)
      PROVE  Good
  BY <1>1, <1>3 DEF Same
<1>4. ASSUME UNCHANGED shown, latest' = sent + 1, NEW c,
             c.filter = filter' \/ carried',
             \A n \in calls' : n \in calls \/ n = c
      PROVE  Good
  BY <1>2, <1>4
<1>5. CASE Asking
  <2>1. UNCHANGED shown
    BY <1>5, AskingFields
  <2>2. ASSUME NEW c, NEW of, Reads(c, of) PROVE Good
    BY <1>4, <2>1, <2>2 DEF Reads, New
  <2> QED  BY <1>3, <1>5, <2>1, <2>2, AskingFields
<1>6. ASSUME NEW c \in DOMAIN p.does, Click(c) PROVE Good
  <2>1. PICK k : /\ k.no = sent + 1 /\ k.of = {c} /\ k.after = p.does[c]
                 /\ k.filter = filter /\ k.reply = "none"
                 /\ \A n \in calls' : n = k \/ \E m \in calls : Same(n, m)
                 /\ latest' = IF p.does[c] = "refill" THEN sent + 1 ELSE latest
    BY <1>6, SendsFields
  <2>2. UNCHANGED <<shown, filter, carried>>
    BY <1>6 DEF Click
  <2> QED  BY <1>1, <1>2, <2>1, <2>2 DEF Same
<1>7. ASSUME NEW m \in calls, Serve(m) \/ Fail(m) PROVE Good
  <2>1. PICK a : Answered(m, a)
    BY <1>7, AnswerFields
  <2> QED  BY <1>1, <2>1 DEF Answered, page
<1>8. CASE OtherWrites
  <2>1. UNCHANGED <<shown, latest, filter, carried>> /\ calls' = Crowded
    BY <1>8 DEF OtherWrites, page
  <2> QED  BY <1>3, <2>1, CrowdedIsSame
<1>9. ASSUME NEW m \in calls, ArriveLoad(m) PROVE Good
  BY <1>1, <1>9 DEF ArriveLoad, NoAsk, Show
<1>10. ASSUME NEW m \in calls, ArriveWrite(m) PROVE Good
  <2>1. UNCHANGED filter /\ (shown' = shown \/ Show(m))
    BY <1>10 DEF ArriveWrite
  <2>2. ASSUME NEW c, Renews(m, c) PROVE Good
    <3>1. UNCHANGED shown
      BY <1>10, <2>2 DEF ArriveWrite, Renews
    <3>2. c.filter = filter' \/ carried'
      BY <2>1, <2>2 DEF Renews, New
    <3>3. latest' = sent + 1 /\ \A n \in calls' : n \in calls \/ n = c
      BY <2>2 DEF Renews
    <3> QED  BY <1>4, <3>1, <3>2, <3>3
  <2>3. CASE calls' = calls \ {m} /\ UNCHANGED <<latest, carried>>
    BY <1>1, <2>1, <2>3 DEF Show
  <2> QED  BY <1>10, <2>2, <2>3, ArriveFields
<1>11. ASSUME NEW m \in calls, ArriveFailed(m) \/ ArriveExpired(m)
       PROVE  UNCHANGED <<shown, latest, filter, carried>> /\ calls' \subseteq calls
  BY <1>11 DEF ArriveFailed, ArriveExpired, NoAsk
<1>12. CASE Expire \/ (\E t \in Text : Type(t)) \/ UNCHANGED vars
  <2>1. UNCHANGED <<shown, latest, filter, carried>> /\ calls' \subseteq calls
    BY <1>12 DEF Expire, Type, vars, net, page, hist
  <2> QED  BY <1>3, <2>1
<1> QED
  BY <1>3, <1>5, <1>6, <1>7, <1>8, <1>9, <1>10, <1>11, <1>12 DEF Next, Asking

\* A page with nothing under way that shows what it asked for last shows the
\* change it made and what its inputs say; the exceptions are the RFQ page and
\* a reread with inputs from before.
THEOREM ScreenIsKeptUp == Spec => []ScreenKeepsUp
<1>1. Init => FirstLoad /\ OneRefill /\ Fresh /\ Asked
  <2> SUFFICES ASSUME Init PROVE FirstLoad /\ OneRefill /\ Fresh /\ Asked
    OBVIOUS
  <2>1. shown = [no |-> 0, filter |-> First, rev |-> 0] /\ own = 0 /\ filter = First
    BY DEF Init
  <2> DEFINE c == Call(1, p.opens, "load", First)
  <2>2. \/ calls = {}
        \/ ~Has("waits") /\ calls = {c}
    BY DEF Init
  <2>3. c.after = "load" /\ c.reply = "none" /\ c.filter = First
    BY DEF Call
  <2> HIDE DEF c
  <2>4. FirstLoad
    BY <2>1, <2>2, <2>3 DEF FirstLoad
  <2> QED  BY <2>1, <2>2, <2>3, <2>4 DEF OneRefill, Fresh, Asked
<1>2. ASSUME Base, Fresh, Asked PROVE ScreenKeepsUp
  <2>1. screen \in DOMAIN Screen /\ p = Screen[screen]
    BY <1>2, PageIsSound DEF Base
  <2>2. screen # "rfq" => RefillsAlone(p)
    BY <2>1, PagesRefillAlone
  <2> QED  BY <1>2, <2>2 DEF Fresh, Asked, ScreenKeepsUp
<1> QED
  BY BaseInit, BaseStays, FirstLoadStays, OneRefillStays, FreshStays,
     AskedStays, <1>1, <1>2, PTL DEF Spec

=============================================================================
