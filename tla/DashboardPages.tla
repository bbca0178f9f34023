--------------------------- MODULE DashboardPages ---------------------------
(***************************************************************************)
(* The dashboard's components (frontend/dashboard/src/pages, components,   *)
(* hooks) as the query cache sees them.                                    *)
(*                                                                         *)
(* A component reads views and makes calls.  A view is a key of the cache  *)
(* it shows, the data it depends on, and whether it polls.  A call writes  *)
(* data and, once it is answered, refreshes (invalidates) the keys with    *)
(* certain prefixes, and may put its answer itself under a key.  A feed is *)
(* a prefix that is refreshed by a message or a button, without a call.    *)
(*                                                                         *)
(* A key is a tuple; "id" and the like stand for one value of a parameter. *)
(* A screen is a set of components shown together: the conditions of the   *)
(* routes, tabs, drawers and dialogs.  Layout, forms and formatting are    *)
(* left out.                                                               *)
(***************************************************************************)
EXTENDS FiniteSets

LOCAL INSTANCE SequencesExt

View(key, reads) == [key |-> key, reads |-> reads, polls |-> FALSE]
Polled(key, reads) == [View(key, reads) EXCEPT !.polls = TRUE]

Call(name, writes, refreshes) ==
    [name |-> name, writes |-> writes, refreshes |-> refreshes, sets |-> {}]
Setting(call, keys) == [call EXCEPT !.sets = keys]

Component(shown, made) == [views |-> shown, calls |-> made, feeds |-> {}]
Shows(shown) == Component(shown, {})
Does(made) == Component({}, made)
FedBy(component, prefixes) == [component EXCEPT !.feeds = prefixes]

\* Where one component always brings another along.
With(a, b) == [views |-> a.views \cup b.views, calls |-> a.calls \cup b.calls,
               feeds |-> a.feeds \cup b.feeds]

-----------------------------------------------------------------------------
(* The frame around every page.                                            *)

CurrentUser == Shows({View(<<"me">>, {"me"})})

License == Shows({View(<<"license">>, {"license"})})

SidebarSearch == Shows({View(<<"search", "q">>, {"devices", "alerts"})})

TenantSwitcher == Shows({View(<<"auth-tenants">>, {"tenants"})})

DashboardsNavItem == Shows({View(<<"dashboards">>, {"dashboards"})})

\* Mutant: the alert count is fetched once.
Sidebar_NoPoll == Shows({View(<<"me">>, {"me"}), View(<<"alert-count">>, {"alerts"})})

Sidebar == Shows({View(<<"me">>, {"me"}), Polled(<<"alert-count">>, {"alerts"})})

MobileNav == Shows({View(<<"me">>, {"me"}), Polled(<<"alert-count">>, {"alerts"})})

Frame == {CurrentUser, License, TenantSwitcher, DashboardsNavItem, Sidebar}

-----------------------------------------------------------------------------
(* Alerts.                                                                 *)

AlertsPage ==
    FedBy(Component(
        {Polled(<<"alerts", "status", "severity", "offset">>, {"alerts"})},
        {Call("bulk", {"alerts"}, {<<"alerts">>, <<"alert-count">>}),
         Call("acknowledge", {"alerts"}, {<<"alerts">>}),
         Call("resolve", {"alerts"}, {<<"alerts">>, <<"alert-count">>})}),
        {<<"alerts">>, <<"alert-count">>})

AlertDetailPage ==
    Component(
        {View(<<"alert", "id">>, {"alerts"}), View(<<"device", "id">>, {"device"}),
         View(<<"alert-rule", "id">>, {"rules"})},
        {Call("acknowledge one", {"alerts"}, {<<"alert", "id">>}),
         Call("resolve one", {"alerts"}, {<<"alert", "id">>, <<"alerts">>, <<"alert-count">>})})

CommentThread ==
    Component(
        {Polled(<<"alert-comments", "id">>, {"comments"})},
        {Call("post comment", {"comments"}, {<<"alert-comments", "id">>}),
         Call("edit comment", {"comments"}, {<<"alert-comments", "id">>}),
         Call("delete comment", {"comments"}, {<<"alert-comments", "id">>})})

RoutePrefixInput ==
    Shows({View(<<"devices-list">>, {"devices"}), View(<<"device-routes-browse", "id">>, {"telemetry"})})

RuleModal ==
    Component(
        {View(<<"channels">>, {"channels"}), View(<<"maintenance-windows-all">>, {"maintenance"})},
        {Call("save rule", {"rules"}, {<<"alert-rules">>})})

AlertRulesPage ==
    Component(
        {View(<<"alert-rules">>, {"rules"})},
        {Call("toggle rule", {"rules"}, {<<"alert-rules">>}),
         Call("delete rule", {"rules"}, {<<"alert-rules">>})})

ApplyModal == Does({Call("apply policy", {"rules"}, {<<"alert-rules">>})})

PoliciesPage == Shows({View(<<"alert-policies">>, {"policies"})})

CreateWindowModal == Does({Call("schedule", {"maintenance"}, {<<"maint-global">>})})

MaintenancePage ==
    Component(
        {Polled(<<"maint-global">>, {"maintenance"}),
         View(<<"devices">>, {"devices"})},
        {Call("delete window", {"maintenance"}, {<<"maint-global">>})})

SavedViewsMenu ==
    Component(
        {View(<<"saved-views", "page">>, {"savedViews"})},
        {Call("save view", {"savedViews"}, {<<"saved-views", "page">>}),
         Call("update view", {"savedViews"}, {<<"saved-views", "page">>}),
         Call("delete view", {"savedViews"}, {<<"saved-views", "page">>})})

-----------------------------------------------------------------------------
(* Devices.                                                                *)

AddDeviceModal ==
    Component(
        {View(<<"credentials", "all">>, {"credentials"}), View(<<"collectors">>, {"collectors"})},
        {Call("add device", {"devices"}, {<<"devices">>})})

BulkActionModal ==
    Component(
        {View(<<"sites">>, {"sites"}), View(<<"collectors">>, {"collectors"}),
         View(<<"credentials">>, {"credentials"})},
        {Call("bulk device", {"devices"}, {<<"devices">>})})

DeviceList ==
    Shows({Polled(<<"devices", "all", "0">>, {"devices"}),
           Polled(<<"maintenance-active">>, {"maintenance"}),
           Polled(<<"overview-counts">>, {"devices", "alerts"})})

\* Sweeps refetch their list without marking it as invalid first.
DiscoverPage ==
    FedBy(Component(
        {View(<<"credentials">>, {"credentials"}), View(<<"collectors">>, {"collectors"}),
         Polled(<<"sweep-jobs">>, {"sweeps"})},
        {Call("sweep", {"sweeps"}, {<<"sweep-jobs">>}),
         Call("cancel sweep", {"sweeps"}, {<<"sweep-jobs">>}),
         Call("add discovered", {"devices"}, {<<"devices">>})}),
        {<<"sweep-jobs">>})

NeighborsSection ==
    FedBy(Shows({View(<<"neighbors", "id">>, {"telemetry"}), View(<<"ospf", "id">>, {"telemetry"}),
                 View(<<"bgp-sessions", "id">>, {"telemetry"})}),
          {<<"neighbors", "id">>})

RoutesSection == Shows({View(<<"routes", "id">>, {"telemetry"})})

VLANsSection == Shows({View(<<"vlans", "id">>, {"telemetry"})})

STPSection == Shows({View(<<"stp", "id">>, {"telemetry"})})

AddressesSection == Shows({View(<<"addresses", "id", "search">>, {"telemetry"})})

CredentialSection ==
    Component(
        {View(<<"device-creds", "id">>, {"assignments"}), View(<<"credentials-all">>, {"credentials"})},
        {Call("link credential", {"assignments"}, {<<"device-creds", "id">>}),
         Call("unlink credential", {"assignments"}, {<<"device-creds", "id">>})})

EngineIdBadge == Does({Call("discover engine", {"device", "devices"}, {<<"device", "id">>})})

MaintenanceBadge == Shows({View(<<"maintenance", "id">>, {"maintenance"})})

MaintenanceSection ==
    Component(
        {View(<<"maintenance", "id">>, {"maintenance"})},
        {Call("schedule here", {"maintenance"}, {<<"maintenance", "id">>}),
         Call("delete here", {"maintenance"}, {<<"maintenance", "id">>})})

HealthTab ==
    Shows({Polled(<<"device-health-history", "id", "hours">>, {"telemetry"}),
           View(<<"device-baselines", "id">>, {"telemetry"}),
           Polled(<<"device-latency", "id", "hours">>, {"telemetry"})})

CollectorSection == Shows({View(<<"collectors">>, {"collectors"})})

BGPSection ==
    Shows({Polled(<<"bgp-sessions", "id">>, {"telemetry"}),
           Polled(<<"bgp-prefix-history", "id">>, {"telemetry"})})

BGPEventDrawer == Shows({View(<<"bgp-events", "session">>, {"telemetry"})})

TrapTab == Shows({View(<<"device-traps", "id", "days">>, {"telemetry"})})

DeviceDetail ==
    With(Component(
        {View(<<"device-creds-tab", "id">>, {"assignments"}),
         View(<<"bgp-sessions", "id">>, {"telemetry"}),
         View(<<"device", "id">>, {"device"}),
         Polled(<<"device-open-alerts", "id">>, {"alerts"}),
         Polled(<<"device-health", "id">>, {"telemetry"}),
         Polled(<<"device-interfaces", "id">>, {"telemetry"}),
         View(<<"device-baselines", "id">>, {"telemetry"})},
        {Call("delete device", {"devices"}, {<<"devices">>}),
         Call("exclude", {"device", "devices"}, {<<"device", "id">>}),
         Call("override", {"rules"}, {}),
         Call("patch device", {"device", "devices"}, {<<"device", "id">>})}),
        MaintenanceBadge)

\* What the settings drawer shows over the page.
DeviceSettings ==
    {EngineIdBadge, CollectorSection, CredentialSection, MaintenanceSection}

\* A collection only starts when it is asked for, and its data comes by itself; what
\* it refreshes it does 5 s later, wherever the user is then and however long it takes.
DeviceConfigHistory ==
    Component(
        {Polled(<<"config-status", "id">>, {"backups"}), View(<<"config-backups", "id">>, {"backups"}),
         View(<<"config-diffs", "id">>, {"backups"}), View(<<"config-diff", "diff">>, {"fixed"}),
         View(<<"config-backup", "backup">>, {"fixed"}), View(<<"git-log", "id">>, {"backups"}),
         View(<<"git-show", "id", "commit">>, {"fixed"})},
        {Call("collect", {},
              {<<"config-status", "id">>, <<"config-backups", "id">>, <<"config-diffs", "id">>})})

DeviceConfigCompliance ==
    Shows({Polled(<<"config-status", "id">>, {"backups"}),
           View(<<"compliance-results", "id">>, {"results"}),
           View(<<"golden-config-results", "id">>, {"goldenResults"})})

\* The backup of what was rolled back comes by itself, too; nothing is refreshed but
\* by the button that closes the result.
RollbackModal ==
    FedBy(Shows({View(<<"config-backup", "backup">>, {"fixed"}),
                 View(<<"config-backups", "id">>, {"backups"}),
                 View(<<"config-backup", "latest">>, {"fixed"})}),
          {<<"config-backups", "id">>, <<"config-diffs", "id">>})

InterfaceDetailPage ==
    Shows({View(<<"device", "id">>, {"device"}), View(<<"interface", "id">>, {"telemetry"}),
           Polled(<<"iface-metrics", "id", "hours">>, {"telemetry"})})

InterfaceFlowSection ==
    Shows({Polled(<<"iface-flow-ts", "id", "minutes">>, {"telemetry"}),
           Polled(<<"iface-flow-talkers", "id", "minutes">>, {"telemetry"})})

AddressesPage ==
    Shows({View(<<"addresses-global", "search">>, {"telemetry"}),
           View(<<"devices">>, {"devices"})})

ClientPage == Shows({View(<<"client", "mac">>, {"telemetry"})})

-----------------------------------------------------------------------------
(* Administration.                                                         *)

SmtpTab ==
    Component(
        {View(<<"smtp-settings">>, {"smtp"})},
        {Call("save smtp", {"smtp"}, {<<"smtp-settings">>})})

SendLogPanel == Shows({View(<<"channel-send-log", "id">>, {"telemetry"})})

ChannelModal == Does({Call("save channel", {"channels"}, {<<"channels">>})})

ChannelsTab ==
    Component(
        {View(<<"channels">>, {"channels"})},
        {Call("delete channel", {"channels"}, {<<"channels">>})})

TenantTab ==
    Component(
        {View(<<"tenant-settings">>, {"tenants"})},
        {Call("save tenant", {"tenants"}, {<<"tenant-settings">>})})

SiteModal ==
    Does({Call("save site", {"sites", "devices"}, {<<"admin-sites">>, <<"admin-all-devices">>})})

SitesTab ==
    Component(
        {View(<<"admin-sites">>, {"sites"}), View(<<"admin-all-devices">>, {"devices"})},
        {Call("delete site", {"sites", "devices"}, {<<"admin-sites">>, <<"admin-all-devices">>})})

\* useAlertingSettings, and the tab around it.
AlertingSettingsTab ==
    Component(
        {View(<<"tenant-alerting-settings">>, {"alertingSettings"})},
        {Call("save alerting", {"alertingSettings"}, {<<"tenant-alerting-settings">>})})

EmailTemplateTab ==
    Component(
        {View(<<"email-templates-all">>, {"templates"}), View(<<"email-template", "metric">>, {"templates"})},
        {Call("save template", {"templates"},
              {<<"email-template", "metric">>, <<"email-templates-all">>}),
         Call("reset template", {"templates"},
              {<<"email-template", "metric">>, <<"email-templates-all">>})})

ConfigureModal ==
    Component(
        {View(<<"api-method-commands", "id", "method">>, {"commands"})},
        {Call("configure method", {"apiMethods"}, {<<"api-methods">>})})

ApiMethodsTab ==
    Component(
        {Polled(<<"api-methods">>, {"apiMethods"})},
        {Call("probe", {"apiMethods"}, {<<"api-methods">>}),
         Call("probe all", {"apiMethods"}, {<<"api-methods">>}),
         Call("toggle method", {"apiMethods"}, {<<"api-methods">>}),
         Call("configure bulk", {"apiMethods"}, {<<"api-methods">>})})

DataTab ==
    Component(
        {Polled(<<"data-stats">>, {"retention"})},
        {Call("retention", {"retention"}, {<<"data-stats">>}),
         Call("metrics retention", {"retention"}, {<<"data-stats">>}),
         Call("journal retention", {"retention"}, {<<"data-stats">>}),
         Call("housekeeping", {"retention"}, {<<"data-stats">>})})

\* Keeps the settings of two of its tabs loaded under all of them.
AdminPage == Shows({View(<<"smtp-settings">>, {"smtp"}), View(<<"channels">>, {"channels"})})

UserModal ==
    Component(
        {View(<<"user-tenant-access", "id">>, {"grants"})},
        {Call("save user", {"users", "grants"}, {<<"users-page">>, <<"user-tenant-access", "id">>}),
         Call("reset password", {"passwords"}, {})})

UsersPage ==
    Component(
        {View(<<"me">>, {"me"}), View(<<"platform-tenants">>, {"tenants"}),
         View(<<"users-page", "filter">>, {"users"})},
        {Call("toggle user", {"users"}, {<<"users-page">>}),
         Call("delete user", {"users"}, {<<"users-page">>})})

TenantsTab ==
    Component(
        {View(<<"platform-tenants">>, {"tenants"})},
        {Call("create tenant", {"tenants"}, {<<"platform-tenants">>}),
         Call("toggle tenant", {"tenants"}, {<<"platform-tenants">>})})

\* Puts the answer into the cache and refreshes nothing.
SettingsTab ==
    Component(
        {View(<<"platform-global-settings">>, {"platformSettings"})},
        {Setting(Call("save platform", {"platformSettings"}, {}), {<<"platform-global-settings">>})})

LicenseTab ==
    Component(
        {View(<<"license">>, {"license"})},
        {Call("upload license", {"license"}, {<<"license">>}),
         Call("remove license", {"license"}, {<<"license">>})})

UploadBackupButton == Does({Call("upload backup", {"uploads"}, {<<"uploaded-backups">>})})

StagedBackupsSection ==
    Component(
        {Polled(<<"uploaded-backups">>, {"uploads"})},
        {Call("delete backup", {"uploads"}, {<<"uploaded-backups">>})})

PlatformHealthPage == FedBy(Shows({Polled(<<"platform-health">>, {"telemetry"})}), {<<"platform-health">>})

AccountPage ==
    Component(
        {View(<<"me">>, {"me"})},
        {Call("save profile", {"me"}, {<<"me">>}), Call("change password", {"passwords"}, {})})

TotpSection == Does({Call("two factor", {"me"}, {<<"me">>})})

AuditPage == FedBy(Shows({View(<<"audit", "filters">>, {"audit"})}), {<<"audit", "filters">>})

-----------------------------------------------------------------------------
(* Configuration, collectors, credentials, changes and reports.            *)

PolicyForm == Shows({View(<<"devices-all">>, {"devices"})})

GoldenConfigForm == Shows({View(<<"devices-all">>, {"devices"})})

MultiDeployTab ==
    Component({View(<<"devices-all">>, {"devices"})}, {Call("deploy many", {"running"}, {})})

ConfigPage ==
    Component(
        {Polled(<<"compliance-results">>, {"results"}),
         View(<<"compliance-policies">>, {"policies"}),
         View(<<"golden-configs">>, {"golden"}),
         Polled(<<"golden-config-results">>, {"goldenResults"})},
        {Call("create policy", {"policies"}, {<<"compliance-policies">>}),
         Call("update policy", {"policies", "results"}, {<<"compliance-policies">>}),
         Call("delete policy", {"policies", "results"}, {<<"compliance-policies">>}),
         Call("run policy", {"results"}, {<<"compliance-results">>}),
         Call("create golden", {"golden"}, {<<"golden-configs">>}),
         Call("update golden", {"golden", "goldenResults"}, {<<"golden-configs">>}),
         Call("delete golden", {"golden", "goldenResults"},
              {<<"golden-configs">>, <<"golden-config-results">>}),
         Call("run golden", {"goldenResults"}, {<<"golden-config-results">>})})

GitArchiveTab ==
    Component(
        {Polled(<<"git-status">>, {"archive"})},
        {Call("set remote", {"archive"}, {<<"git-status">>}),
         Call("remove remote", {"archive"}, {<<"git-status">>}),
         Call("push archive", {"archive"}, {<<"git-status">>})})

CollectorDrawer ==
    Component(
        {Polled(<<"collector-details", "id">>, {"collector"}),
         Polled(<<"collector-logs", "id", "window">>, {"telemetry"}),
         Polled(<<"collector-own-logs", "id", "window">>, {"telemetry"})},
        {Call("revoke in drawer", {"collectors"}, {<<"collectors">>}),
         Call("token in drawer", {"tokens"}, {}),
         Call("update collector", {"installs"}, {}),
         Call("set timezone", {"collector"}, {<<"collector-details", "id">>}),
         Call("set intervals", {"collector"}, {<<"collector-details", "id">>})})

CollectorRow ==
    Does({Call("revoke", {"collectors"}, {<<"collectors">>}),
          Call("new token", {"tokens"}, {})})

BinaryStatusPanel ==
    Component(
        {Polled(<<"collector-build-status">>, {"binary"})},
        {Call("build", {"binary"}, {<<"collector-build-status">>})})

CollectorsPage ==
    Component(
        {Polled(<<"collectors">>, {"collectors"})},
        {Call("create collector", {"collectors"}, {<<"collectors">>})})

CredentialModal == Does({Call("save credential", {"credentials"}, {<<"credentials-all">>})})

CredentialsPage ==
    Component(
        {View(<<"credentials-all">>, {"credentials"})},
        {Call("delete credential", {"credentials"}, {<<"credentials-all">>})})

ChangesPage ==
    LET both    == {<<"changes">>, <<"change">>}
        written == {"changes", "change"}
    IN  Component(
            {Polled(<<"changes", "status">>, {"changes"}), Polled(<<"change", "id">>, {"change"})},
            {Call("approve", written, both), Call("reject", written, both),
             Call("execute", written, both), Call("cancel", written, both)})

CreateChangeModal ==
    Component(
        {View(<<"devices", "all", "0">>, {"devices"})},
        {Call("create change", {"changes"}, {<<"changes">>})})

NewScheduleForm == Does({Call("create schedule", {"schedules"}, {<<"report-schedules">>})})

EditScheduleModal == Does({Call("edit schedule", {"schedules"}, {<<"report-schedules">>})})

RunNowCard == Does({Call("run report", {"reports"}, {<<"report-runs">>})})

ReportsPage ==
    With(Component(
        {View(<<"report-schedules">>, {"schedules"}), Polled(<<"report-runs">>, {"reports"}),
         View(<<"sites">>, {"sites"})},
        {Call("toggle schedule", {"schedules"}, {<<"report-schedules">>}),
         Call("delete schedule", {"schedules"}, {<<"report-schedules">>}),
         Call("delete run", {"reports"}, {<<"report-runs">>})}),
        RunNowCard)

ProbesPage == Shows({View(<<"probe-collectors">>, {"collectors"})})

-----------------------------------------------------------------------------
(* Routing, topology and the network's logs: what is only shown.           *)

RoutingEventDrawer == Shows({View(<<"bgp-events", "session">>, {"telemetry"})})

BGPPrefixTrendsTab == Shows({View(<<"bgp-prefix-history", "id", "hours">>, {"telemetry"})})

BGPFlapLogTab == Shows({Polled(<<"bgp-flap-log", "limit">>, {"telemetry"})})

BGPPanel ==
    Shows({Polled(<<"bgp-sessions-all">>, {"telemetry"}), Polled(<<"bgp-summary">>, {"telemetry"}),
           Polled(<<"bgp-prefix-totals">>, {"telemetry"}),
           View(<<"bgp-prefix-history", "id", "24">>, {"telemetry"})})

OSPFPanel ==
    Shows({Polled(<<"ospf-neighbors">>, {"telemetry"}), Polled(<<"ospf-areas">>, {"telemetry"})})

ISISAdjacenciesPanel ==
    Shows({Polled(<<"isis-neighbors">>, {"telemetry"}), Polled(<<"isis-summary">>, {"telemetry"}),
           Polled(<<"isis-areas">>, {"telemetry"}), Polled(<<"isis-circuit-levels">>, {"telemetry"})})

RoutesPanel == Shows({Polled(<<"routes", "protocol">>, {"telemetry"})})

\* The same panel for IS-IS.
ISISRoutesPanel ==
    With(RoutesPanel, Shows({Polled(<<"isis-areas">>, {"telemetry"}),
                             Polled(<<"isis-circuit-levels">>, {"telemetry"})}))

ISISLspPanel ==
    Shows({Polled(<<"isis-lsps">>, {"telemetry"}), Polled(<<"isis-areas">>, {"telemetry"})})

ISISTopologyPanel == Shows({Polled(<<"isis-topology">>, {"telemetry"})})

LinkPanel == Shows({Polled(<<"link-util", "id">>, {"telemetry"})})

TopologyPage ==
    FedBy(Shows({View(<<"topology">>, {"devices"}), View(<<"sites">>, {"sites"}),
                 Polled(<<"topo-alerts">>, {"alerts"}), Polled(<<"topo-util", "ifaces">>, {"telemetry"})}),
          {<<"topology">>})

IpDetailPanel ==
    Shows({View(<<"flow-ip-detail", "ip", "minutes", "device">>, {"telemetry"}),
           View(<<"flow-intel-single", "ip">>, {"telemetry"})})

FlowSummaryCards == Shows({Polled(<<"flow-summary", "minutes", "device">>, {"telemetry"})})

FlowTimeSeries ==
    Shows({Polled(<<"flow-timeseries", "minutes", "device", "src", "dst">>, {"telemetry"})})

TopTalkersTable ==
    Shows({Polled(<<"flow-top-talkers", "minutes", "device", "protocol">>, {"telemetry"}),
           View(<<"flow-intel", "ips">>, {"telemetry"})})

ConversationTimeSeries ==
    Shows({View(<<"flow-conv-ts", "src", "dst", "minutes", "device">>, {"telemetry"})})

ProtocolBreakdown == Shows({Polled(<<"flow-protocols", "minutes", "device">>, {"telemetry"})})

TopPortsTable == Shows({Polled(<<"flow-top-ports", "minutes", "device">>, {"telemetry"})})

TopDevicesPanel == Shows({Polled(<<"flow-top-devices", "minutes">>, {"telemetry"})})

FlowSearch ==
    FedBy(Shows({View(<<"flow-search", "params">>, {"telemetry"})}), {<<"flow-search", "params">>})

GeoTab == Shows({Polled(<<"flow-geo", "minutes", "device">>, {"telemetry"})})

ThreatsTab == Shows({Polled(<<"flow-threats", "minutes", "device", "score">>, {"telemetry"})})

DirectionTab == Shows({Polled(<<"flow-direction", "minutes", "device">>, {"telemetry"})})

NetworksTab ==
    Shows({Polled(<<"flow-asn", "minutes", "device", "direction">>, {"telemetry"}),
           Polled(<<"flow-subnet", "minutes", "device", "direction">>, {"telemetry"})})

ApplicationsTab == Shows({Polled(<<"flow-apps", "minutes", "device">>, {"telemetry"})})

ConnectionsTab ==
    Shows({Polled(<<"flow-elephants", "minutes", "device", "mb">>, {"telemetry"}),
           Polled(<<"flow-tcp", "minutes", "device">>, {"telemetry"})})

FlowPage == Shows({View(<<"devices-list">>, {"devices"})})

LogRateChart == Shows({Polled(<<"syslog-rate", "hours", "device">>, {"telemetry"})})

SyslogSummaryCards == Shows({Polled(<<"syslog-summary", "minutes", "device">>, {"telemetry"})})

SeverityBreakdown == Shows({Polled(<<"syslog-summary", "minutes", "device">>, {"telemetry"})})

TopPrograms == Shows({Polled(<<"syslog-programs", "minutes", "device">>, {"telemetry"})})

TopDevices == Shows({Polled(<<"syslog-top-devices", "minutes">>, {"telemetry"})})

MessageTable == Shows({Polled(<<"syslog-messages", "params">>, {"telemetry"})})

SyslogTab ==
    {LogRateChart, SyslogSummaryCards, SeverityBreakdown, TopPrograms, TopDevices, MessageTable}

TrapRateChart == Shows({Polled(<<"trap-rate", "hours", "device">>, {"telemetry"})})

TrapSummaryCards == Shows({Polled(<<"trap-summary", "minutes", "device">>, {"telemetry"})})

TrapSeverityBreakdown == Shows({Polled(<<"trap-summary", "minutes", "device">>, {"telemetry"})})

TopTrapTypes == Shows({Polled(<<"trap-top-types", "minutes", "device">>, {"telemetry"})})

TopTrapDevices == Shows({Polled(<<"trap-top-devices", "minutes">>, {"telemetry"})})

TrapTable == Shows({Polled(<<"traps", "params">>, {"telemetry"})})

TrapsTab ==
    {TrapRateChart, TrapSummaryCards, TrapSeverityBreakdown, TopTrapTypes, TopTrapDevices, TrapTable}

SyslogPage == Shows({View(<<"devices-list">>, {"devices"})})

-----------------------------------------------------------------------------
(* Dashboards and their widgets.                                           *)

HomeRedirect == Shows({View(<<"dashboards">>, {"dashboards"})})

DashboardsListPage ==
    Component(
        {View(<<"dashboards">>, {"dashboards"}), View(<<"dashboard-templates">>, {"dashboardTemplates"})},
        {Call("create dashboard", {"dashboards"}, {<<"dashboards">>}),
         Call("from template", {"dashboards"}, {<<"dashboards">>}),
         Call("copy dashboard", {"dashboards"}, {<<"dashboards">>}),
         Call("remove dashboard", {"dashboards"}, {<<"dashboards">>}),
         Call("patch dashboard", {"dashboards"}, {<<"dashboards">>})})

\* useDashboardWidgets: a PATCH puts its answer under the dashboard's key.
DashboardWidgets ==
    LET patch(name) == Setting(Call(name, {"dashboard", "dashboards"}, {<<"dashboards">>}),
                               {<<"dashboard", "id">>})
    IN  Component(
            {View(<<"dashboard", "id">>, {"dashboard"})},
            {patch("save layout"), patch("rename"), patch("share"), patch("make default")})

\* The refresh button invalidates every key there is.
DashboardViewPage ==
    FedBy(With(DashboardWidgets,
               Does({Call("clone this", {"dashboards"}, {<<"dashboards">>}),
                     Call("delete this", {"dashboards"}, {<<"dashboards">>})})),
          {<<>>})

\* Never saves.
KioskPage == Shows(DashboardWidgets.views)

WidgetData == Shows({Polled(<<"widget-data">>, {"telemetry"})})

OverviewData == Shows({Polled(<<"overview">>, {"devices", "alerts"})})

BGPFlapLogWidget == Shows({Polled(<<"bgp-flap-log">>, {"telemetry"})})

BGPPrefixTotalsWidget == Shows({Polled(<<"bgp-prefix-totals">>, {"telemetry"})})

BGPSummaryWidget == Shows({Polled(<<"bgp-summary">>, {"telemetry"})})

OSPFAreasWidget == Shows({Polled(<<"ospf-areas">>, {"telemetry"})})

SyslogFeedWidget == Shows({Polled(<<"syslog-feed">>, {"telemetry"})})

SyslogHeatmapWidget == Shows({Polled(<<"syslog-heatmap">>, {"telemetry"})})

SyslogRateWidget == Shows({Polled(<<"syslog-rate">>, {"telemetry"})})

TopBandwidthSection == Shows({Polled(<<"top-bandwidth", "minutes">>, {"telemetry"})})

TopCpuWidget == Shows({Polled(<<"top-resources">>, {"telemetry"})})

TopMemoryWidget == Shows({Polled(<<"top-resources">>, {"telemetry"})})

MetricCatalog == View(<<"metric-catalog">>, {"catalog"})

MetricGauge == Shows({MetricCatalog, Polled(<<"metric-value", "metric", "id", "iface">>, {"telemetry"})})

MetricGraph ==
    Shows({MetricCatalog, Polled(<<"metric-series", "metric", "id", "iface", "minutes">>, {"telemetry"})})

MetricStat ==
    Shows({MetricCatalog, Polled(<<"metric-value", "metric", "id", "iface">>, {"telemetry"}),
           Polled(<<"metric-series", "metric", "id", "iface", "60">>, {"telemetry"})})

WidgetConfigModal ==
    Shows({View(<<"devices-all">>, {"devices"}), MetricCatalog,
           View(<<"device-interfaces", "id">>, {"telemetry"})})

Widgets ==
    {WidgetData, OverviewData, BGPFlapLogWidget, BGPPrefixTotalsWidget, BGPSummaryWidget,
     OSPFAreasWidget, SyslogFeedWidget, SyslogHeatmapWidget, SyslogRateWidget,
     TopBandwidthSection, TopCpuWidget, TopMemoryWidget, MetricGauge, MetricGraph, MetricStat}

-----------------------------------------------------------------------------
(* What is on the screen together.                                         *)

AlertPages ==
    {{AlertsPage, SavedViewsMenu}, {AlertDetailPage, CommentThread},
     {AlertRulesPage}, {AlertRulesPage, RuleModal, RoutePrefixInput},
     {PoliciesPage}, {PoliciesPage, ApplyModal},
     {MaintenancePage}, {MaintenancePage, CreateWindowModal}}

DevicePages ==
    {{DeviceList, SavedViewsMenu}, {DeviceList, SavedViewsMenu, AddDeviceModal},
     {DeviceList, SavedViewsMenu, BulkActionModal}, {DiscoverPage},
     {DeviceDetail}, {DeviceDetail} \cup DeviceSettings,
     {DeviceDetail, NeighborsSection}, {DeviceDetail, RoutesSection},
     {DeviceDetail, VLANsSection}, {DeviceDetail, STPSection}, {DeviceDetail, AddressesSection},
     {DeviceDetail, HealthTab}, {DeviceDetail, BGPSection}, {DeviceDetail, BGPSection, BGPEventDrawer},
     {DeviceDetail, TrapTab}, {DeviceDetail, DeviceConfigHistory},
     {DeviceDetail, DeviceConfigHistory, RollbackModal}, {DeviceDetail, DeviceConfigCompliance},
     {InterfaceDetailPage, InterfaceFlowSection}, {AddressesPage}, {ClientPage}}

AdminTabs ==
    {{TenantTab}, {SitesTab}, {SitesTab, SiteModal}, {AlertingSettingsTab}, {SmtpTab},
     {ChannelsTab, SendLogPanel}, {ChannelsTab, ChannelModal}, {EmailTemplateTab},
     {ApiMethodsTab}, {ApiMethodsTab, ConfigureModal}, {DataTab}}

AdminPages ==
    {{AdminPage} \cup tab : tab \in AdminTabs}
    \cup {{UsersPage}, {UsersPage, UserModal}, {TenantsTab}, {SettingsTab}, {LicenseTab},
          {PlatformHealthPage, UploadBackupButton, StagedBackupsSection},
          {AccountPage, TotpSection}, {AuditPage}}

OperationPages ==
    {{ConfigPage}, {ConfigPage, PolicyForm}, {ConfigPage, GoldenConfigForm},
     {ConfigPage, MultiDeployTab}, {ConfigPage, GitArchiveTab},
     {CollectorsPage, CollectorRow, BinaryStatusPanel},
     {CollectorsPage, CollectorRow, BinaryStatusPanel, CollectorDrawer},
     {CredentialsPage}, {CredentialsPage, CredentialModal},
     {ChangesPage}, {ChangesPage, CreateChangeModal},
     {ReportsPage}, {ReportsPage, NewScheduleForm}, {ReportsPage, EditScheduleModal}, {ProbesPage}}

NetworkPages ==
    {{BGPPanel}, {BGPPanel, RoutingEventDrawer}, {BGPPanel, BGPPrefixTrendsTab},
     {BGPPanel, BGPFlapLogTab}, {BGPPanel, RoutesPanel}, {OSPFPanel}, {OSPFPanel, RoutesPanel},
     {ISISAdjacenciesPanel}, {ISISRoutesPanel}, {ISISLspPanel}, {ISISTopologyPanel},
     {TopologyPage}, {TopologyPage, LinkPanel},
     {SyslogPage} \cup SyslogTab, {SyslogPage} \cup TrapsTab}

FlowTabs ==
    {{FlowSummaryCards, FlowTimeSeries, TopTalkersTable, ConversationTimeSeries,
      ProtocolBreakdown, TopPortsTable, TopDevicesPanel, FlowSearch},
     {GeoTab}, {ThreatsTab}, {DirectionTab}, {NetworksTab}, {ApplicationsTab}, {ConnectionsTab}}

FlowPages == {{FlowPage} \cup tab : tab \in FlowTabs} \cup {{FlowPage, IpDetailPanel}}

DashboardScreens ==
    {{HomeRedirect}, {DashboardsListPage}, {DashboardViewPage} \cup Widgets,
     {DashboardViewPage, WidgetConfigModal} \cup Widgets}

Pages ==
    UNION {AlertPages, DevicePages, AdminPages, OperationPages, NetworkPages, FlowPages,
           DashboardScreens}

\* Every page has the frame, which searches while its search is open; a phone
\* has another frame; the kiosk is on its own.
Screens ==
    {Frame \cup page : page \in Pages}
    \cup {Frame \cup {SidebarSearch}, {CurrentUser, MobileNav, AlertsPage}, {KioskPage} \cup Widgets}

-----------------------------------------------------------------------------
(* A key's shape: what the screens do with it (QueryCache).                *)

Whole(screen) ==
    [views |-> UNION {c.views : c \in screen}, calls |-> UNION {c.calls : c \in screen},
     feeds |-> UNION {c.feeds : c \in screen}]

\* invalidateQueries takes the beginning of a key.
Matches(prefixes, key) == \E p \in prefixes : IsPrefix(p, key)

\* Calls that change what a key shows on the same screen and neither refresh
\* nor replace it: it is old until it is polled or its stale time has passed.
Unrefreshed ==
    ({"acknowledge", "acknowledge one"} \X {<<"alert-count">>})
    \cup ({"add device", "bulk device"} \X {<<"overview-counts">>})
    \cup ({"link credential", "unlink credential"} \X {<<"device-creds-tab", "id">>})
    \cup ({"save tenant", "create tenant", "toggle tenant"} \X {<<"auth-tenants">>})
    \cup ({"update policy", "delete policy"} \X {<<"compliance-results">>})
    \cup ({"update golden"} \X {<<"golden-config-results">>})

\* Keys whose data changes without the user, and that every screen polls.
WatchedKeys ==
    {<<"alert-count">>, <<"alerts", "status", "severity", "offset">>, <<"device-open-alerts", "id">>,
     <<"topo-alerts">>, <<"alert-comments", "id">>, <<"overview">>, <<"overview-counts">>,
     <<"maint-global">>, <<"maintenance-active">>, <<"changes", "status">>, <<"change", "id">>,
     <<"sweep-jobs">>, <<"report-runs">>, <<"data-stats">>, <<"git-status">>, <<"api-methods">>,
     <<"uploaded-backups">>, <<"platform-health">>, <<"collector-build-status">>,
     <<"collector-details", "id">>, <<"config-status", "id">>, <<"compliance-results">>,
     <<"golden-config-results">>, <<"device-health", "id">>, <<"iface-metrics", "id", "hours">>}

\* A call made where the key is not shown owes nothing unless it refreshes it.
Effect(call, key, reads, shows) ==
    LET writes    == call.writes \cap reads # {}
        refreshes == Matches(call.refreshes, key)
        sets      == Matches(call.sets, key)
    IN  [writes |-> writes, refreshes |-> refreshes, sets |-> sets,
         owes |-> /\ writes /\ <<call.name, key>> \notin Unrefreshed
                  /\ shows \/ refreshes \/ sets]

\* A screen, as far as it concerns the key.
Place(screen, key, reads) ==
    LET views == {v \in screen.views : v.key = key}
    IN  [shows |-> views # {},
         polls |-> \E v \in views : v.polls,
         fed   |-> Matches(screen.feeds, key),
         calls |-> {e \in {Effect(c, key, reads, views # {}) : c \in screen.calls} :
                       e.writes \/ e.refreshes}]

Shape(screens, key) ==
    LET reads == UNION {v.reads : v \in {w \in UNION {s.views : s \in screens} : w.key = key}}
    IN  [places  |-> {Place(s, key, reads) : s \in screens},
         watched |-> key \in WatchedKeys]

PageShapes ==
    LET screens == {Whole(s) : s \in Screens}
        keys    == {v.key : v \in UNION {s.views : s \in screens}}
    IN  {Shape(screens, key) : key \in keys}
=============================================================================
