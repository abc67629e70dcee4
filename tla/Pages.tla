------------------------------- MODULE Pages -------------------------------
(***************************************************************************)
(* The web client as tables.  Three things are written down here, each     *)
(* from its own source: the functions of lib/api.ts, sorted by whether     *)
(* they read (GET) or send; the roles the API's controllers let through    *)
(* on the route behind each function; and, per page or panel of the web    *)
(* application, what it reads when it opens, what its buttons do, and what *)
(* it does with the answer.  Screens.tla runs one browser tab over them.   *)
(*                                                                         *)
(* Two tables can disagree: a page may open for a role its own reads are   *)
(* refused to.  Nothing here reconciles them.                              *)
(***************************************************************************)
Staff == {"admin", "super_admin", "sales_approver", "quote_operator"}

\* Roles the guard lets through whatever the route asks for.
Admins == {"admin", "super_admin"}

(***************************************************************************)
(* lib/api.ts                                                              *)
(***************************************************************************)
Client(get, send) == [get |-> get, send |-> send]

RfqClient ==
  Client({"fetchRfqs", "fetchRfqDetail"},
         {"createRfqFromEmail", "generateQuote", "saveDraftQuote",
          "submitQuote"})

ApprovalClient ==
  Client({"getQuoteEmail"},
         {"approveQuote", "updateQuoteEmail", "sendQuoteEmail"})

LogClient ==
  Client({"getAuditLogs", "getResourceAuditLogs", "getIngestionRuns",
          "getIngestionSummary"}, {})

ExtractionClient ==
  Client({"getExtractedItems", "getExtractedCustomer", "getMatches"},
         {"updateExtractedItem", "updateMatch", "createQuoteFromMatches"})

UserClient ==
  Client({"getUsers"},
         {"createUser", "updateUser", "deactivateUser",
          "authForgotPassword", "authResetPassword"})

CatalogueClient ==
  Client({"getProducts", "getProduct", "exportCatalogue"},
         {"uploadCatalogue", "deleteProduct", "createProduct",
          "updateProduct", "reactivateProduct", "previewCatalogueUpload"})

SettingsClient ==
  Client({"getJobs", "getLlmSetting"},
         {"updateLlmSetting", "testLlmConnection"})

ConnectorClient ==
  Client({"getConnectors", "getConnector", "getConnectorRuns",
          "getOAuth2Providers", "startOAuth2Flow"},
         {"createConnector", "updateConnector", "deleteConnector",
          "testConnector", "testConnectorCredentials", "syncConnectorNow"})

CustomerClient ==
  Client({"getCustomers", "getCustomer"},
         {"createCustomer", "updateCustomer", "deleteCustomer",
          "mergeCustomers", "saveCustomerFromRfq"})

TemplateClient ==
  Client({"getQuoteTemplates", "getQuoteTemplate"},
         {"createQuoteTemplate", "updateQuoteTemplate",
          "deleteQuoteTemplate", "duplicateTemplate"})

RevisionClient ==
  Client({"getQuoteRevisions", "getQuoteDiff", "getSlaConfig",
          "fetchRfqsWithAssignment"},
         {"updateProductMarkup", "reviseQuote", "assignRfq",
          "updateSlaConfig"})

EnrichmentClient ==
  Client({"getEnrichmentPreview", "getSetupStatus"},
         {"triggerCatalogueEnrichment", "confirmEnrichment",
          "backfillEmbeddings"})

WebhookClient ==
  Client({"listWebhookEndpoints", "getRfqReplies", "getWorkspace"},
         {"createWebhookEndpoint", "deleteWebhookEndpoint",
          "testWebhookEndpoint", "updateWorkspace"})

AnalyticsClient ==
  Client({"getAnalyticsRfqVolume", "getAnalyticsWinRate",
          "getAnalyticsResponseTime", "getAnalyticsTopCustomers",
          "getAnalyticsConnectors", "getAnalyticsSlaSummary"}, {})

PortalClient ==
  Client({"getSubscription", "getPortalQuoteData"},
         {"createStripeCheckout", "initSePayOrder", "createPortalShareLink",
          "revokePortalShareLinks", "portalAcceptQuote",
          "portalRejectQuote", "portalRequestRevision"})

\* The calls the sign-in pages and lib/auth.ts make without lib/api.ts.
SignInClient ==
  Client({}, {"login", "register", "inviteAccept", "invite"})

Clients ==
  {RfqClient, ApprovalClient, LogClient, ExtractionClient, UserClient,
   CatalogueClient, SettingsClient, ConnectorClient, CustomerClient,
   TemplateClient, RevisionClient, EnrichmentClient, WebhookClient,
   AnalyticsClient, PortalClient, SignInClient}

Calls == UNION {k.get \cup k.send : k \in Clients}

\* Calls that bypass request(): an answer 401 does not sign the tab out.
Direct ==
  {"exportCatalogue", "getSubscription", "createStripeCheckout",
   "initSePayOrder"} \cup SignInClient.send

\* Sends that only try something out: no row is changed by them.
Trials ==
  {"previewCatalogueUpload", "testConnector", "testConnectorCredentials",
   "testLlmConnection", "testWebhookEndpoint"}

Changing == (UNION {k.send : k \in Clients}) \ Trials

(***************************************************************************)
(* The controllers: who may make the call.  canActivate lets a public      *)
(* route through, then an administrator, then any user when the route      *)
(* names no role, and otherwise only the roles it names.  The routes are   *)
(* the pairs of a role and a call it may make.                             *)
(***************************************************************************)
By(roles, calls) == (roles \cup Admins) \X calls
Open(calls) == Staff \X calls
Public(calls) == (Staff \cup {"visitor"}) \X calls

RfqRoutes ==
  Public({"createRfqFromEmail"})
  \cup Open({"fetchRfqs", "fetchRfqsWithAssignment", "getRfqReplies",
           "fetchRfqDetail", "getExtractedItems", "getMatches"})
  \cup By({"quote_operator"}, {"updateMatch"})

RfqQuoteRoutes ==
  By({"quote_operator"},
     {"saveDraftQuote", "generateQuote", "createQuoteFromMatches",
      "updateExtractedItem", "reviseQuote"})
  \cup Open({"getExtractedCustomer", "getQuoteRevisions", "getQuoteDiff",
           "saveCustomerFromRfq"})
  \cup By({}, {"assignRfq"})

\* Mutant: approvers may submit as well.
QuoteRoutes_Both ==
  By({"quote_operator", "sales_approver"}, {"submitQuote"})
  \cup By({"sales_approver"}, {"approveQuote"})

QuoteRoutes ==
  By({"quote_operator"}, {"submitQuote"})
  \cup By({"sales_approver"}, {"approveQuote"})

QuoteEmailRoutes ==
  By({"quote_operator"},
     {"getQuoteEmail", "updateQuoteEmail", "sendQuoteEmail"})

AuditRoutes ==
  By({"sales_approver"}, {"getAuditLogs", "getResourceAuditLogs"})

RunRoutes == Open({"getIngestionRuns", "getIngestionSummary"})

UserRoutes ==
  Open({"getUsers"})
  \cup By({}, {"createUser", "updateUser", "deactivateUser"})

CatalogueRoutes ==
  Open({"getProducts", "getProduct"})
  \cup By({}, {"previewCatalogueUpload", "uploadCatalogue", "exportCatalogue",
             "createProduct", "updateProduct", "updateProductMarkup",
             "reactivateProduct", "deleteProduct", "backfillEmbeddings",
             "triggerCatalogueEnrichment", "getEnrichmentPreview",
             "confirmEnrichment"})

JobRoutes == By({}, {"getJobs"})

SettingsRoutes ==
  By({}, {"getLlmSetting", "updateLlmSetting", "testLlmConnection"})

ConnectorRoutes ==
  Open({"getConnector", "getConnectorRuns"})
  \cup By({}, {"getConnectors", "createConnector", "updateConnector",
             "deleteConnector", "testConnector",
             "testConnectorCredentials", "syncConnectorNow"})

OAuth2Routes == Public({"getOAuth2Providers"}) \cup Open({"startOAuth2Flow"})

CustomerRoutes ==
  Open({"getCustomers", "getCustomer", "createCustomer", "updateCustomer",
        "mergeCustomers"})
  \cup By({}, {"deleteCustomer"})

TemplateRoutes ==
  Open({"getQuoteTemplates", "getQuoteTemplate"})
  \cup By({}, {"createQuoteTemplate", "updateQuoteTemplate",
             "deleteQuoteTemplate", "duplicateTemplate"})

SlaRoutes == Open({"getSlaConfig"}) \cup By({}, {"updateSlaConfig"})

SetupRoutes == By({}, {"getSetupStatus"})

WebhookRoutes ==
  By({}, {"listWebhookEndpoints", "createWebhookEndpoint",
          "deleteWebhookEndpoint", "testWebhookEndpoint"})

WorkspaceRoutes == Open({"getWorkspace"}) \cup By({}, {"updateWorkspace"})

AnalyticsRoutes == By({"sales_approver"}, AnalyticsClient.get)

BillingRoutes ==
  Open({"getSubscription", "createStripeCheckout", "initSePayOrder"})

PortalRoutes ==
  By({"quote_operator"}, {"createPortalShareLink", "revokePortalShareLinks"})
  \cup Public({"getPortalQuoteData", "portalAcceptQuote", "portalRejectQuote",
             "portalRequestRevision"})

AuthRoutes ==
  Public({"login", "register", "inviteAccept", "authForgotPassword",
          "authResetPassword"})
  \cup By({}, {"invite"})

Routes ==
  RfqRoutes \cup RfqQuoteRoutes \cup QuoteRoutes \cup QuoteEmailRoutes
  \cup AuditRoutes \cup RunRoutes \cup UserRoutes \cup CatalogueRoutes \cup JobRoutes
  \cup SettingsRoutes \cup ConnectorRoutes \cup OAuth2Routes \cup CustomerRoutes
  \cup TemplateRoutes \cup SlaRoutes \cup SetupRoutes \cup WebhookRoutes
  \cup WorkspaceRoutes \cup AnalyticsRoutes \cup BillingRoutes \cup PortalRoutes
  \cup AuthRoutes

ASSUME EveryCallHasRoute == {r[2] : r \in Routes} = Calls

CanActivate(role, calls) == \A c \in calls : <<role, c>> \in Routes

(***************************************************************************)
(* The pages.  A page is a record:                                         *)
(*   admits  the roles useRequireAuth lets in                              *)
(*   opens   what it reads when it opens, all in one Promise.all           *)
(*   asks    what its search or refresh button reads                       *)
(*   does    its buttons, and what each does when its answer is in:        *)
(*             "reload"  read again what the page shows                    *)
(*             "clear"   empty the form and read again                     *)
(*             "reread"  read again, but leave the form alone              *)
(*             "refill"  show the answer and refill the form from it       *)
(*             "close"   report it, and close or empty the form            *)
(*             "keep"    report it and stay                                *)
(*             "leave"   go to another page, or a view without buttons     *)
(*             "show"    show the answer and report nothing                *)
(*   busy    the calls that disable a button while they are under way      *)
(*   form    the calls that send what is typed in the form                 *)
(*   only    the roles a button is drawn for, where not all                *)
(*   traits  "public"   anyone may open it, signed in or not               *)
(*           "waits"    reads only once the role is known                  *)
(*           "rerun"    reads again for an administrator then              *)
(*           "filters"  reads again when an input changes                  *)
(*           "inputs"   reads with its inputs when its button asks         *)
(*           "hides"    hides the list and its buttons while it reads      *)
(*           "early"    shows the form before the first answer is in       *)
(*           "free"     its buttons work without a first answer            *)
(*           "filled"   fills the form from what it reads                  *)
(*           "omits"    sends no field that was emptied                    *)
(***************************************************************************)
Page == [admits |-> Staff, opens |-> {}, asks |-> {}, does |-> <<>>,
         busy |-> <<>>, form |-> {}, only |-> <<>>, traits |-> {}]

\* A flag of its own for each call, and one flag for all of them.
Each(calls) == [c \in calls |-> {c}]
Together(calls) == [c \in calls |-> calls]

\* useRequireAuth("admin") lets in exactly the role "admin".
AdminPage == [Page EXCEPT !.admits = {"admin"}]

VisitorPage == [Page EXCEPT !.traits = {"public"}]

RfqListPage ==
  [Page EXCEPT
     !.opens = {"fetchRfqs"},
     !.does = [createRfqFromEmail |-> "clear", assignRfq |-> "reload"],
     !.busy = Each({"createRfqFromEmail"}),
     !.form = {"createRfqFromEmail"},
     !.only = [assignRfq |-> {"admin"}],
     !.traits = {"filters", "rerun", "free"}]

\* The quote editor: saving, submitting and approving share one flag,
\* drafting by the model waits for it and for its own.
QuoteActions == {"saveDraftQuote", "submitQuote", "approveQuote"}

\* refreshDetail is behind the refresh button and behind the match panel's
\* onQuoteCreated.  (A failed reading of the replies alone is swallowed, and
\* a saved customer is also picked in the form.)
RfqDetailPage ==
  [Page EXCEPT
     !.opens = {"fetchRfqDetail", "getExtractedItems",
                "getExtractedCustomer", "getQuoteTemplates", "getCustomers",
                "getUsers", "getRfqReplies"},
     !.asks = {"fetchRfqDetail"},
     !.does = [saveDraftQuote |-> "refill", submitQuote |-> "refill",
               approveQuote |-> "refill", generateQuote |-> "reload",
               createQuoteFromMatches |-> "reload",
               reviseQuote |-> "reload", assignRfq |-> "reread",
               saveCustomerFromRfq |-> "keep",
               createPortalShareLink |-> "show",
               revokePortalShareLinks |-> "show"],
     !.busy = [saveDraftQuote |-> QuoteActions, submitQuote |-> QuoteActions,
               approveQuote |-> QuoteActions,
               generateQuote |-> QuoteActions \cup {"generateQuote"},
               createQuoteFromMatches |-> {"createQuoteFromMatches"},
               reviseQuote |-> {"reviseQuote"}, assignRfq |-> {"assignRfq"},
               saveCustomerFromRfq |-> {"saveCustomerFromRfq"},
               createPortalShareLink |-> {"createPortalShareLink"}],
     !.form = {"saveDraftQuote"},
     !.only = [assignRfq |-> {"admin"}, approveQuote |-> {"sales_approver"}],
     !.traits = {"filled", "omits"}]

QuoteEmailPanel ==
  [Page EXCEPT
     !.opens = {"getQuoteEmail"},
     !.does = [updateQuoteEmail |-> "keep", sendQuoteEmail |-> "reread"],
     !.busy = Together({"updateQuoteEmail", "sendQuoteEmail"}),
     !.form = {"updateQuoteEmail"},
     !.traits = {"filled"}]

MatchPanel ==
  [Page EXCEPT
     !.opens = {"getMatches"},
     !.does = [updateMatch |-> "reload", createQuoteFromMatches |-> "show"],
     !.busy = Each({"createQuoteFromMatches"}),
     !.traits = {"hides"}]

\* The panel is handed its items once and never reads them again.  One row
\* at a time is edited; an answer closes whichever is open by then.
ItemPanel ==
  [Page EXCEPT
     !.opens = {"getExtractedItems"},
     !.does = [updateExtractedItem |-> "close"],
     !.busy = Each({"updateExtractedItem"}),
     !.form = {"updateExtractedItem"},
     !.traits = {"filled", "omits"}]

CatalogueListPage ==
  [Page EXCEPT
     !.opens = {"getProducts"},
     !.does = [deleteProduct |-> "reload", reactivateProduct |-> "reload",
               exportCatalogue |-> "show"],
     !.busy = Each({"exportCatalogue"}),
     !.traits = {"filters", "hides", "free"}]

\* Saving, deactivating and reactivating share one flag.
ProductActions == {"updateProduct", "deleteProduct", "reactivateProduct"}

ProductPage ==
  [Page EXCEPT
     !.opens = {"getProduct"},
     !.does = [updateProduct |-> "keep", deleteProduct |-> "keep",
               reactivateProduct |-> "keep", updateProductMarkup |-> "keep"],
     !.busy = [updateProductMarkup |-> {"updateProductMarkup"},
               updateProduct |-> ProductActions,
               deleteProduct |-> ProductActions,
               reactivateProduct |-> ProductActions],
     !.form = {"updateProduct", "updateProductMarkup"},
     !.only = [updateProductMarkup |-> {"admin"}],
     !.traits = {"filled", "omits"}]

NewProductPage ==
  [Page EXCEPT !.does = [createProduct |-> "leave"],
               !.busy = Each({"createProduct"}),
               !.form = {"createProduct"}]

UploadPage ==
  [Page EXCEPT
     !.does = [previewCatalogueUpload |-> "show", uploadCatalogue |-> "show"],
     !.busy = Each({"previewCatalogueUpload", "uploadCatalogue"})]

EnrichPage ==
  [AdminPage EXCEPT
     !.opens = {"getEnrichmentPreview"},
     !.does = [triggerCatalogueEnrichment |-> "keep",
               confirmEnrichment |-> "reload"],
     !.busy = Each({"triggerCatalogueEnrichment", "confirmEnrichment"}),
     !.traits = {"hides", "free"}]

JobsPage ==
  [Page EXCEPT !.opens = {"getJobs"}, !.asks = {"getJobs"},
               !.traits = {"filters", "hides"}]

AuditPage ==
  [Page EXCEPT !.asks = {"getAuditLogs"}, !.traits = {"hides", "inputs"}]

UsersPage ==
  [AdminPage EXCEPT
     !.opens = {"getUsers"},
     !.does = [deactivateUser |-> "reload", updateUser |-> "reload"],
     !.traits = {"waits", "hides"}]

NewUserPage ==
  [AdminPage EXCEPT !.does = [createUser |-> "leave"],
                    !.busy = Each({"createUser"}),
                    !.form = {"createUser"}]

CustomersPage ==
  [Page EXCEPT
     !.opens = {"getCustomers"},
     !.does = [deleteCustomer |-> "reload"],
     !.only = [deleteCustomer |-> {"admin"}],
     !.traits = {"filters", "hides"}]

CustomerPage ==
  [Page EXCEPT
     !.opens = {"getCustomer"},
     !.does = [updateCustomer |-> "leave", deleteCustomer |-> "leave"],
     !.busy = Each({"updateCustomer"}),
     !.form = {"updateCustomer"},
     !.only = [deleteCustomer |-> {"admin"}],
     !.traits = {"filled", "omits"}]

\* The customers to merge with, looked up anew with every letter typed.
MergePanel ==
  [Page EXCEPT
     !.opens = {"getCustomers"},
     !.does = [mergeCustomers |-> "leave"],
     !.busy = Each({"mergeCustomers"}),
     !.traits = {"filters", "early"}]

NewCustomerPage ==
  [Page EXCEPT !.does = [createCustomer |-> "leave"],
               !.busy = Each({"createCustomer"}),
               !.form = {"createCustomer"}]

TemplatesPage ==
  [AdminPage EXCEPT
     !.opens = {"getQuoteTemplates"},
     !.does = [deleteQuoteTemplate |-> "reload",
               duplicateTemplate |-> "leave"],
     !.traits = {"filters", "hides"}]

TemplatePage ==
  [AdminPage EXCEPT
     !.opens = {"getQuoteTemplate"},
     !.does = [updateQuoteTemplate |-> "leave", duplicateTemplate |-> "leave"],
     !.busy = Each({"updateQuoteTemplate", "duplicateTemplate"}),
     !.form = {"updateQuoteTemplate"},
     !.traits = {"filled", "omits"}]

NewTemplatePage ==
  [AdminPage EXCEPT !.does = [createQuoteTemplate |-> "leave"],
                    !.busy = Each({"createQuoteTemplate"}),
                    !.form = {"createQuoteTemplate"}]

ConnectorsPage ==
  [AdminPage EXCEPT
     !.opens = {"getConnectors"},
     !.does = [updateConnector |-> "reload", deleteConnector |-> "reload",
               syncConnectorNow |-> "reload", testConnector |-> "show"],
     !.traits = {"hides"}]

NewConnectorPage ==
  [AdminPage EXCEPT
     !.opens = {"getOAuth2Providers"},
     !.does = [createConnector |-> "leave", startOAuth2Flow |-> "leave",
               testConnectorCredentials |-> "show"],
     !.busy = Each({"createConnector", "startOAuth2Flow",
                    "testConnectorCredentials"}),
     !.form = {"createConnector"},
     !.traits = {"early", "free"}]

ConnectorPage ==
  [AdminPage EXCEPT
     !.opens = {"getConnector"},
     !.does = [updateConnector |-> "leave", testConnector |-> "show"],
     !.busy = Each({"updateConnector", "testConnector"}),
     !.form = {"updateConnector"},
     !.traits = {"filled", "omits"}]

ModelSettingsPage ==
  [AdminPage EXCEPT
     !.opens = {"getLlmSetting"},
     !.does = [updateLlmSetting |-> "close", testLlmConnection |-> "show"],
     !.busy = Each({"updateLlmSetting", "testLlmConnection"}),
     !.form = {"updateLlmSetting"},
     !.traits = {"early", "free", "filled", "omits"}]

SlaSettingsPage ==
  [AdminPage EXCEPT
     !.opens = {"getSlaConfig"},
     !.does = [updateSlaConfig |-> "keep"],
     !.busy = Each({"updateSlaConfig"}),
     !.form = {"updateSlaConfig"},
     !.traits = {"early", "free", "filled"}]

WorkspacePage ==
  [AdminPage EXCEPT
     !.opens = {"getWorkspace"},
     !.does = [updateWorkspace |-> "refill", invite |-> "show"],
     !.busy = Each({"updateWorkspace", "invite"}),
     !.form = {"updateWorkspace"},
     !.traits = {"waits", "early", "filled"}]

WebhooksPage ==
  [AdminPage EXCEPT
     !.opens = {"listWebhookEndpoints"},
     !.does = [createWebhookEndpoint |-> "clear",
               deleteWebhookEndpoint |-> "reload",
               testWebhookEndpoint |-> "show"],
     !.busy = Each({"createWebhookEndpoint"}),
     !.form = {"createWebhookEndpoint"},
     !.traits = {"hides", "free"}]

AnalyticsPage ==
  [Page EXCEPT !.opens = AnalyticsClient.get \ {"getAnalyticsSlaSummary"}]

MetricsPage ==
  [Page EXCEPT
     !.opens = {"getIngestionSummary", "getIngestionRuns", "fetchRfqs",
                "getAnalyticsSlaSummary"},
     !.asks = {"getIngestionRuns"},
     !.traits = {"inputs"}]

SetupPage == [AdminPage EXCEPT !.opens = {"getSetupStatus"}]

BillingPage ==
  [AdminPage EXCEPT
     !.opens = {"getSubscription"},
     !.does = [createStripeCheckout |-> "leave", initSePayOrder |-> "show"],
     !.busy = Each({"createStripeCheckout", "initSePayOrder"}),
     !.traits = {"waits"}]

LoginPage ==
  [VisitorPage EXCEPT !.does = [login |-> "leave"],
                      !.busy = Each({"login"})]

SignUpPage ==
  [VisitorPage EXCEPT !.does = [register |-> "leave"],
                      !.busy = Each({"register"}), !.form = {"register"}]

ForgotPage ==
  [VisitorPage EXCEPT !.does = [authForgotPassword |-> "leave"],
                      !.busy = Each({"authForgotPassword"})]

ResetPage ==
  [VisitorPage EXCEPT !.does = [authResetPassword |-> "leave"],
                      !.busy = Each({"authResetPassword"}),
                      !.form = {"authResetPassword"}]

InvitePage ==
  [VisitorPage EXCEPT !.does = [inviteAccept |-> "leave"],
                      !.busy = Each({"inviteAccept"}),
                      !.form = {"inviteAccept"}]

PortalAnswers ==
  {"portalAcceptQuote", "portalRejectQuote", "portalRequestRevision"}

PortalPage ==
  [VisitorPage EXCEPT !.opens = {"getPortalQuoteData"},
                      !.does = [c \in PortalAnswers |-> "leave"],
                      !.busy = Together(PortalAnswers),
                      !.form = PortalAnswers \ {"portalAcceptQuote"}]

Screen ==
  [rfqs |-> RfqListPage, rfq |-> RfqDetailPage,
   quoteEmail |-> QuoteEmailPanel, matches |-> MatchPanel,
   items |-> ItemPanel, catalogue |-> CatalogueListPage,
   product |-> ProductPage, newProduct |-> NewProductPage,
   upload |-> UploadPage, enrich |-> EnrichPage, jobs |-> JobsPage,
   audit |-> AuditPage, users |-> UsersPage, newUser |-> NewUserPage,
   customers |-> CustomersPage, customer |-> CustomerPage,
   merge |-> MergePanel,
   newCustomer |-> NewCustomerPage, templates |-> TemplatesPage,
   template |-> TemplatePage, newTemplate |-> NewTemplatePage,
   connectors |-> ConnectorsPage, newConnector |-> NewConnectorPage,
   connector |-> ConnectorPage, modelSettings |-> ModelSettingsPage,
   slaSettings |-> SlaSettingsPage, workspace |-> WorkspacePage,
   webhooks |-> WebhooksPage, analytics |-> AnalyticsPage,
   metrics |-> MetricsPage, setup |-> SetupPage, billing |-> BillingPage,
   login |-> LoginPage, signUp |-> SignUpPage, forgot |-> ForgotPage,
   reset |-> ResetPage, invite |-> InvitePage, portal |-> PortalPage]

=============================================================================
