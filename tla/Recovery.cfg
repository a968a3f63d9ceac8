CONSTANTS
    Member = {1, 2}
    Other = {3}
    Schedule <- MCSchedule
    Estimate <- MCEstimate
    Itinerary <- MCItinerary
    Roster <- MCRoster
    Inventory <- MCInventory
    Known <- MCKnown
    Tier <- MCTier
    Reachable = {1}
    HotelRows <- MCHotelRows
    RankingRow <- MCRankingRow
    Minimum = 30
    Margin = 20
    Archive <- MCArchive
    Report <- MCReport
    Runways <- MCRunways
    Clock = 3
    Threshold = 50
    Overlays <- MCOverlays
    Tasks <- MCTasks
    Overlapping = FALSE
SPECIFICATION Spec
INVARIANTS TypeOK NoRoomTwice RoomsAddUp FiguresAgree
PROPERTY ExactStandsStill
CHECK_DEADLOCK FALSE
