SPECIFICATION FairSpec
CONSTANTS
    Options = {"layout-footer-fixed", "layout-fixed", "dark-mode"}
    MaxStale = 1
INVARIANTS TypeOK PageDressed SidebarAgrees OptionClasses
PROPERTIES OptionsKept SignedOutOnlyLate PreloaderEnds
